---- MODULE Spec2Model ----
(***************************************************************************)
(* A model of the pharos Ph directory server (pharos-server): the command  *)
(* parser, the authentication manager, the middleware chain, the in-memory *)
(* store and the per-connection session loop of handle_connection.         *)
(*                                                                         *)
(* Byte strings are sequences of one-character strings, so that the        *)
(* tokenizer, case folding, the word matcher and the response framing are  *)
(* computed character by character as the code computes them.              *)
(***************************************************************************)
EXTENDS Integers, Sequences, FiniteSets, TLC

(***************************************************************************)
(* Characters.  Chars lists TAB, LF, CR and the printable ASCII characters *)
(* in code order; Code(c) is the ASCII code of c.  The grave accent (code   *)
(* 96) cannot be written in a string literal and is named instead.         *)
(***************************************************************************)
Chars ==
    <<"\t", "\n", "\r", " ", "!", "\"", "#", "$", "%", "&", "'", "(",
      ")", "*", "+", ",", "-", ".", "/", "0", "1", "2", "3", "4",
      "5", "6", "7", "8", "9", ":", ";", "<", "=", ">", "?", "@",
      "A", "B", "C", "D", "E", "F", "G", "H", "I", "J", "K", "L",
      "M", "N", "O", "P", "Q", "R", "S", "T", "U", "V", "W", "X",
      "Y", "Z", "[", "\\", "]", "^", "_", "grave", "a", "b", "c", "d",
      "e", "f", "g", "h", "i", "j", "k", "l", "m", "n", "o", "p",
      "q", "r", "s", "t", "u", "v", "w", "x", "y", "z", "{", "|",
      "}", "~">>

CharIndex ==
    [c \in {Chars[i] : i \in 1..Len(Chars)} |->
        CHOOSE i \in 1..Len(Chars) : Chars[i] = c]

Code(c) ==
    LET i == CharIndex[c]
    IN  IF i = 1 THEN 9 ELSE IF i = 2 THEN 10 ELSE IF i = 3 THEN 13 ELSE i + 28

is_whitespace(c) == c \in {" ", "\t", "\n", "\r"}

is_digit(c) == Code(c) >= 48 /\ Code(c) <= 57

\* char::to_lowercase on the ASCII range
to_lowercase_char(c) ==
    IF Code(c) >= 65 /\ Code(c) <= 90 THEN Chars[CharIndex[c] + 32] ELSE c

\* str::to_lowercase
to_lowercase(s) == [i \in 1..Len(s) |-> to_lowercase_char(s[i])]

\* str::trim: strip leading and trailing whitespace
RECURSIVE trim_start(_)
trim_start(s) ==
    IF s # <<>> /\ is_whitespace(s[1]) THEN trim_start(Tail(s)) ELSE s

RECURSIVE trim_end(_)
trim_end(s) ==
    IF s # <<>> /\ is_whitespace(s[Len(s)])
    THEN trim_end(SubSeq(s, 1, Len(s) - 1)) ELSE s

trim(s) == trim_end(trim_start(s))

\* str::contains(pattern)
contains(s, pat) ==
    \E i \in 1..(Len(s) - Len(pat) + 1) : SubSeq(s, i, i + Len(pat) - 1) = pat

\* str::starts_with(prefix)
starts_with(s, prefix) ==
    Len(prefix) <= Len(s) /\ SubSeq(s, 1, Len(prefix)) = prefix

\* Ord for String: byte-wise lexicographic order
RECURSIVE str_less(_, _)
str_less(a, b) ==
    IF b = <<>> THEN FALSE
    ELSE IF a = <<>> THEN TRUE
    ELSE IF a[1] = b[1] THEN str_less(Tail(a), Tail(b))
    ELSE Code(a[1]) < Code(b[1])

\* <[String]>::join(" ")
RECURSIVE join(_)
join(toks) ==
    IF toks = <<>> THEN <<>>
    ELSE IF Len(toks) = 1 THEN toks[1]
    ELSE toks[1] \o <<" ">> \o join(Tail(toks))

\* format!("{}", n) for an unsigned integer
RECURSIVE to_decimal(_)
to_decimal(n) ==
    IF n < 10 THEN <<Chars[CharIndex["0"] + n]>>
    ELSE to_decimal(n \div 10) \o <<Chars[CharIndex["0"] + (n % 10)]>>

\* str::parse::<u32>(): an optional leading "+", then decimal digits whose
\* value fits 32 bits.  The value is kept as its canonical digit string.
RECURSIVE strip_zeros(_)
strip_zeros(d) ==
    IF Len(d) > 1 /\ d[1] = "0" THEN strip_zeros(Tail(d)) ELSE d

u32_max == <<"4", "2", "9", "4", "9", "6", "7", "2", "9", "5">>

parse_u32(s) ==
    LET d == IF s # <<>> /\ s[1] = "+" THEN Tail(s) ELSE s
        z == strip_zeros(d)
    IN  IF d # <<>> /\ (\A i \in 1..Len(d) : is_digit(d[i]))
           /\ (Len(z) < 10 \/ (Len(z) = 10 /\ ~str_less(u32_max, z)))
        THEN [ok |-> TRUE, val |-> z]
        ELSE [ok |-> FALSE, val |-> <<>>]

(***************************************************************************)
(* Keywords and tokens of the protocol, as byte strings.                   *)
(***************************************************************************)
kw_status == <<"s", "t", "a", "t", "u", "s">>
kw_siteinfo == <<"s", "i", "t", "e", "i", "n", "f", "o">>
kw_fields == <<"f", "i", "e", "l", "d", "s">>
kw_id == <<"i", "d">>
kw_auth == <<"a", "u", "t", "h">>
kw_set == <<"s", "e", "t">>
kw_login == <<"l", "o", "g", "i", "n">>
kw_logout == <<"l", "o", "g", "o", "u", "t">>
kw_answer == <<"a", "n", "s", "w", "e", "r">>
kw_clear == <<"c", "l", "e", "a", "r">>
kw_email == <<"e", "m", "a", "i", "l">>
kw_xlogin == <<"x", "l", "o", "g", "i", "n">>
kw_add == <<"a", "d", "d">>
kw_query == <<"q", "u", "e", "r", "y">>
kw_ph == <<"p", "h">>
kw_delete == <<"d", "e", "l", "e", "t", "e">>
kw_change == <<"c", "h", "a", "n", "g", "e">>
kw_help == <<"h", "e", "l", "p">>
kw_quit == <<"q", "u", "i", "t">>
kw_exit == <<"e", "x", "i", "t">>
kw_stop == <<"s", "t", "o", "p">>
kw_return == <<"r", "e", "t", "u", "r", "n">>
kw_make == <<"m", "a", "k", "e">>
kw_force == <<"f", "o", "r", "c", "e">>
kw_native == <<"n", "a", "t", "i", "v", "e">>
kw_type == <<"t", "y", "p", "e">>
kw_person == <<"p", "e", "r", "s", "o", "n">>
kw_machine == <<"m", "a", "c", "h", "i", "n", "e">>
kw_mdb == <<"m", "d", "b">>
kw_admin == <<"a", "d", "m", "i", "n">>
kw_user == <<"u", "s", "e", "r">>

(***************************************************************************)
(* protocol.rs: the command parser.                                        *)
(***************************************************************************)
\* Option<String>
None == [some |-> FALSE, val |-> <<>>]
Some(v) == [some |-> TRUE, val |-> v]

\* ProtocolError
UnknownCommand == "UnknownCommand"
SyntaxError == "SyntaxError"
InvalidArgument == "InvalidArgument"

\* tokenize_step with whitespace ending the token inside quotes as well
tokenize_step_split_in_quotes(st, c) ==
    IF st.escaped THEN
        [st EXCEPT !.current = @ \o <<IF c = "n" THEN "\n"
                                       ELSE IF c = "t" THEN "\t" ELSE c>>,
                   !.escaped = FALSE]
    ELSE IF c = "\\" THEN [st EXCEPT !.escaped = TRUE]
    ELSE IF c = "\"" THEN [st EXCEPT !.in_quotes = ~@]
    ELSE IF is_whitespace(c) THEN
        IF st.current # <<>>
        THEN [st EXCEPT !.tokens = Append(@, st.current), !.current = <<>>]
        ELSE st
    ELSE [st EXCEPT !.current = @ \o <<c>>]

\* One step of the scan in tokenize: st is the scanner state
\* (tokens, current, in_quotes, escaped) and c the next character.
tokenize_step(st, c) ==
    IF st.escaped THEN
        [st EXCEPT !.current = @ \o <<IF c = "n" THEN "\n"
                                       ELSE IF c = "t" THEN "\t" ELSE c>>,
                   !.escaped = FALSE]
    ELSE IF c = "\\" THEN [st EXCEPT !.escaped = TRUE]
    ELSE IF c = "\"" THEN [st EXCEPT !.in_quotes = ~@]
    ELSE IF is_whitespace(c) /\ ~st.in_quotes THEN
        IF st.current # <<>>
        THEN [st EXCEPT !.tokens = Append(@, st.current), !.current = <<>>]
        ELSE st
    ELSE [st EXCEPT !.current = @ \o <<c>>]

\* The scan of tokenize over the characters in order, the first half of
\* the text and then the second from the state the first one leaves
RECURSIVE tokenize_scan(_, _)
tokenize_scan(st, rest) ==
    IF rest = <<>> THEN st
    ELSE IF Len(rest) = 1 THEN tokenize_step(st, rest[1])
    ELSE CHOOSE end \in
             {tokenize_scan(mid, SubSeq(rest, Len(rest) \div 2 + 1, Len(rest))) :
                 mid \in {tokenize_scan(st, SubSeq(rest, 1, Len(rest) \div 2))}} :
             TRUE

\* fn tokenize(line) -> Result<Vec<String>, ProtocolError>
tokenize(line) ==
    LET st == tokenize_scan([tokens |-> <<>>, current |-> <<>>,
                             in_quotes |-> FALSE, escaped |-> FALSE], line)
    IN  IF st.in_quotes THEN [ok |-> FALSE, err |-> SyntaxError, tokens |-> <<>>]
        ELSE [ok |-> TRUE, err |-> "",
              tokens |-> IF st.current # <<>>
                         THEN Append(st.tokens, st.current) ELSE st.tokens]

\* str::find of the equals sign: its first position, 0 when absent
RECURSIVE find_eq(_, _)
find_eq(token, i) ==
    IF i > Len(token) THEN 0
    ELSE IF token[i] = "=" THEN i ELSE find_eq(token, i + 1)

\* parse_attr_value with rfind in the place of find: the last equals sign
parse_attr_value_last_eq(token) ==
    LET eqs == {p \in 1..Len(token) : token[p] = "="}
        pos == CHOOSE p \in eqs : \A q \in eqs : q <= p
    IN  IF eqs # {}
        THEN [some |-> TRUE, key |-> SubSeq(token, 1, pos - 1),
              value |-> SubSeq(token, pos + 1, Len(token))]
        ELSE [some |-> FALSE, key |-> <<>>, value |-> <<>>]

\* fn parse_attr_value(token) -> Option<(String, String)>
parse_attr_value(token) ==
    LET pos == find_eq(token, 1)
    IN  IF pos # 0
        THEN [some |-> TRUE, key |-> SubSeq(token, 1, pos - 1),
              value |-> SubSeq(token, pos + 1, Len(token))]
        ELSE [some |-> FALSE, key |-> <<>>, value |-> <<>>]

\* A selection entry (Option<String>, String) for one token
selection_of(token) ==
    LET kv == parse_attr_value(token)
    IN  IF kv.some THEN <<Some(kv.key), kv.value>> ELSE <<None, token>>

\* enum Command.  Every variant is a record of the same shape; the fields a
\* variant does not have keep the empty value.
Command(kind) ==
    [kind |-> kind, str |-> <<>>, list |-> <<>>, pairs |-> <<>>,
     selections |-> <<>>, returns |-> <<>>, force |-> FALSE,
     target |-> None, public_key |-> <<>>, signature |-> <<>>]

Ok(cmd) == [ok |-> TRUE, err |-> "", cmd |-> cmd]
Err(e) == [ok |-> FALSE, err |-> e, cmd |-> Command("")]

\* The "query" | "ph" arm: selections up to the first "return", then returns
RECURSIVE parse_query(_, _, _)
parse_query(toks, in_returns, cmd) ==
    IF toks = <<>> THEN cmd
    ELSE IF to_lowercase(toks[1]) = kw_return
    THEN parse_query(Tail(toks), TRUE, cmd)
    ELSE IF in_returns
    THEN parse_query(Tail(toks), TRUE,
                     [cmd EXCEPT !.returns = Append(@, toks[1])])
    ELSE parse_query(Tail(toks), FALSE,
                     [cmd EXCEPT !.selections = Append(@, selection_of(toks[1]))])

\* The "change" arm: phase 0 collects selections, phase 1 modifications
RECURSIVE parse_change(_, _, _)
parse_change(toks, phase, cmd) ==
    IF toks = <<>> THEN Ok(cmd)
    ELSE LET lower == to_lowercase(toks[1])
             kv == parse_attr_value(toks[1])
         IN  IF lower = kw_make \/ lower = kw_force
             THEN parse_change(Tail(toks), 1,
                               [cmd EXCEPT !.force = (lower = kw_force)])
             ELSE IF phase = 0
             THEN parse_change(Tail(toks), 0,
                      [cmd EXCEPT !.selections = Append(@, selection_of(toks[1]))])
             ELSE IF kv.some
             THEN parse_change(Tail(toks), 1,
                      [cmd EXCEPT !.pairs = Append(@, <<kv.key, kv.value>>)])
             ELSE Err(SyntaxError)

\* fn parse_command(line) -> Result<Command, ProtocolError>
parse_command(line) ==
    LET t == tokenize(line)
        tokens == t.tokens
        args == Tail(tokens)
        keyword == to_lowercase(tokens[1])
    IN  IF ~t.ok THEN Err(t.err)
        ELSE IF tokens = <<>> THEN Err(SyntaxError)
        ELSE IF keyword = kw_status THEN Ok(Command("Status"))
        ELSE IF keyword = kw_siteinfo THEN Ok(Command("SiteInfo"))
        ELSE IF keyword = kw_fields
        THEN Ok([Command("Fields") EXCEPT !.list = args])
        ELSE IF keyword = kw_id THEN
            IF Len(tokens) < 2 THEN Err(SyntaxError)
            ELSE Ok([Command("Id") EXCEPT !.str = join(args)])
        ELSE IF keyword = kw_auth THEN
            IF Len(tokens) < 3 THEN Err(SyntaxError)
            ELSE Ok([Command("Auth") EXCEPT !.public_key = tokens[2],
                                            !.signature = tokens[3]])
        ELSE IF keyword = kw_set THEN Ok([Command("Set") EXCEPT !.list = args])
        ELSE IF keyword = kw_login THEN
            IF Len(tokens) < 2 THEN Err(SyntaxError)
            ELSE Ok([Command("Login") EXCEPT !.str = tokens[2]])
        ELSE IF keyword = kw_logout THEN Ok(Command("Logout"))
        ELSE IF keyword = kw_answer THEN
            IF Len(tokens) < 2 THEN Err(SyntaxError)
            ELSE Ok([Command("Answer") EXCEPT !.str = tokens[2]])
        ELSE IF keyword = kw_clear THEN
            IF Len(tokens) < 2 THEN Err(SyntaxError)
            ELSE Ok([Command("Clear") EXCEPT !.str = tokens[2]])
        ELSE IF keyword = kw_email THEN
            IF Len(tokens) < 2 THEN Err(SyntaxError)
            ELSE Ok([Command("Email") EXCEPT !.str = tokens[2]])
        ELSE IF keyword = kw_xlogin THEN
            IF Len(tokens) < 3 THEN Err(SyntaxError)
            ELSE IF ~parse_u32(tokens[2]).ok THEN Err(InvalidArgument)
            ELSE Ok([Command("XLogin") EXCEPT !.list = <<parse_u32(tokens[2]).val>>,
                                              !.str = tokens[3]])
        ELSE IF keyword = kw_add THEN
            IF \E i \in 1..Len(args) : ~parse_attr_value(args[i]).some
            THEN Err(SyntaxError)
            ELSE Ok([Command("Add") EXCEPT !.pairs =
                        [i \in 1..Len(args) |->
                            <<parse_attr_value(args[i]).key,
                              parse_attr_value(args[i]).value>>]])
        ELSE IF keyword = kw_query \/ keyword = kw_ph
        THEN Ok(parse_query(args, FALSE, Command("Query")))
        ELSE IF keyword = kw_delete
        THEN Ok([Command("Delete") EXCEPT !.selections =
                    [i \in 1..Len(args) |-> selection_of(args[i])]])
        ELSE IF keyword = kw_change
        THEN parse_change(args, 0, Command("Change"))
        ELSE IF keyword = kw_help THEN
            IF Len(tokens) > 1
               /\ to_lowercase(tokens[2]) \in {kw_native, kw_ph}
            THEN Ok([Command("Help") EXCEPT !.target = Some(to_lowercase(tokens[2])),
                                            !.list = Tail(args)])
            ELSE Ok([Command("Help") EXCEPT !.list = args])
        ELSE IF keyword \in {kw_quit, kw_exit, kw_stop} THEN Ok(Command("Quit"))
        ELSE Err(UnknownCommand)

(***************************************************************************)
(* storage.rs: records and the in-memory store.                            *)
(***************************************************************************)
\* enum RecordType, and Option<RecordType> with tag "None"
Person == [tag |-> "Person", name |-> <<>>]
Machine == [tag |-> "Machine", name |-> <<>>]
Other(s) == [tag |-> "Other", name |-> s]
NoType == [tag |-> "None", name |-> <<>>]

\* The conversion with the text compared as it stands, in no case folded
RecordType_from_case_kept(s) ==
    IF s = kw_person THEN Person
    ELSE IF s = kw_machine THEN Machine
    ELSE Other(s)

\* impl From<&str> for RecordType
RecordType_from(s) ==
    IF to_lowercase(s) = kw_person THEN Person
    ELSE IF to_lowercase(s) = kw_machine THEN Machine
    ELSE Other(s)

\* HashMap<String, String> built by inserting the pairs in order: a later
\* pair with the same key replaces the earlier value
field_map_of(pairs) ==
    [k \in {pairs[i][1] : i \in 1..Len(pairs)} |->
        pairs[CHOOSE i \in 1..Len(pairs) :
                 /\ pairs[i][1] = k
                 /\ \A j \in (i + 1)..Len(pairs) : pairs[j][1] # k][2]]

is_field_separator(c) == is_whitespace(c) \/ c = "," \/ c = ";" \/ c = ":"

\* str::split on the field separators: the pieces between separators, empty
\* pieces included
RECURSIVE split_field_words(_, _)
split_field_words(s, current) ==
    IF s = <<>> THEN <<current>>
    ELSE IF is_field_separator(s[1])
    THEN <<current>> \o split_field_words(Tail(s), <<>>)
    ELSE split_field_words(Tail(s), current \o <<s[1]>>)

\* str::split_whitespace: the non-empty pieces between whitespace
RECURSIVE split_whitespace_from(_, _)
split_whitespace_from(s, current) ==
    IF s = <<>> THEN IF current = <<>> THEN <<>> ELSE <<current>>
    ELSE IF is_whitespace(s[1])
    THEN (IF current = <<>> THEN <<>> ELSE <<current>>)
         \o split_whitespace_from(Tail(s), <<>>)
    ELSE split_whitespace_from(Tail(s), current \o <<s[1]>>)

split_whitespace(s) == split_whitespace_from(s, <<>>)

\* wildcard_match with the pattern cut at its first star
wildcard_match_first_star(word, pattern) ==
    IF \E i \in 1..Len(pattern) : pattern[i] = "*"
    THEN starts_with(word,
                     SubSeq(pattern, 1,
                            (CHOOSE i \in 1..Len(pattern) :
                                /\ pattern[i] = "*"
                                /\ \A j \in 1..(i - 1) : pattern[j] # "*") - 1))
    ELSE word = pattern

\* MemoryStorage::wildcard_match
wildcard_match(word, pattern) ==
    IF pattern # <<>> /\ pattern[Len(pattern)] = "*"
    THEN starts_with(word, SubSeq(pattern, 1, Len(pattern) - 1))
    ELSE word = pattern

\* matches with the field value compared in the case it is stored in
matches_field_case_kept(field_val, query_val) ==
    LET query_words == split_whitespace(to_lowercase(query_val))
        field_words == split_field_words(field_val, <<>>)
    IN  \A qi \in 1..Len(query_words) :
            \E fi \in 1..Len(field_words) :
                LET qw == query_words[qi]
                    fw == field_words[fi]
                IN  IF \E i \in 1..Len(qw) : qw[i] \in {"*", "?", "+"}
                    THEN wildcard_match(fw, qw)
                    ELSE fw = qw

\* MemoryStorage::matches
matches(field_val, query_val) ==
    LET query_words == split_whitespace(to_lowercase(query_val))
        field_words == split_field_words(to_lowercase(field_val), <<>>)
    IN  \A qi \in 1..Len(query_words) :
            \E fi \in 1..Len(field_words) :
                LET qw == query_words[qi]
                    fw == field_words[fi]
                IN  IF \E i \in 1..Len(qw) : qw[i] \in {"*", "?", "+"}
                    THEN wildcard_match(fw, qw)
                    ELSE fw = qw

\* MemoryStorage::new
MemoryStorage_new == [records |-> <<>>, next_id |-> 1]

\* MemoryStorage::record_count
record_count(st) == Len(st.records)

\* MemoryStorage::add_record
add_record(st, fields) ==
    LET record_type == IF kw_type \in DOMAIN fields
                       THEN RecordType_from(fields[kw_type]) ELSE NoType
        record == [id |-> st.next_id, record_type |-> record_type,
                   fields |-> fields]
    IN  [records |-> Append(st.records, record), next_id |-> st.next_id + 1]

\* The filter closure with any in place of all over the selections
query_accepts_any_entry(record, selections, default_type) ==
    /\ default_type # NoType =>
          /\ record.record_type # NoType
          /\ ~(/\ record.record_type # default_type
               /\ ~\E i \in 1..Len(selections) : selections[i][1] = Some(kw_type))
    /\ \E i \in 1..Len(selections) :
          LET field_opt == selections[i][1]
              value == selections[i][2]
          IN  IF field_opt.some
              THEN /\ field_opt.val \in DOMAIN record.fields
                   /\ matches(record.fields[field_opt.val], value)
              ELSE \E f \in DOMAIN record.fields : matches(record.fields[f], value)

\* The filter closure with the records that have no type let through the
\* type gate
query_accepts_untyped_pass(record, selections, default_type) ==
    /\ (default_type # NoType /\ record.record_type # NoType) =>
          ~(/\ record.record_type # default_type
            /\ ~\E i \in 1..Len(selections) : selections[i][1] = Some(kw_type))
    /\ \A i \in 1..Len(selections) :
          LET field_opt == selections[i][1]
              value == selections[i][2]
          IN  IF field_opt.some
              THEN /\ field_opt.val \in DOMAIN record.fields
                   /\ matches(record.fields[field_opt.val], value)
              ELSE \E f \in DOMAIN record.fields : matches(record.fields[f], value)

\* The filter closure with a type gate that no selection entry lifts
query_accepts_gate_kept(record, selections, default_type) ==
    /\ default_type # NoType =>
          /\ record.record_type # NoType
          /\ record.record_type = default_type
    /\ \A i \in 1..Len(selections) :
          LET field_opt == selections[i][1]
              value == selections[i][2]
          IN  IF field_opt.some
              THEN /\ field_opt.val \in DOMAIN record.fields
                   /\ matches(record.fields[field_opt.val], value)
              ELSE \E f \in DOMAIN record.fields : matches(record.fields[f], value)

\* The filter closure of MemoryStorage::query, for one record
query_accepts(record, selections, default_type) ==
    /\ default_type # NoType =>
          /\ record.record_type # NoType
          /\ ~(/\ record.record_type # default_type
               /\ ~\E i \in 1..Len(selections) : selections[i][1] = Some(kw_type))
    /\ \A i \in 1..Len(selections) :
          LET field_opt == selections[i][1]
              value == selections[i][2]
          IN  IF field_opt.some
              THEN /\ field_opt.val \in DOMAIN record.fields
                   /\ matches(record.fields[field_opt.val], value)
              ELSE \E f \in DOMAIN record.fields : matches(record.fields[f], value)

\* MemoryStorage::query
query(st, selections, default_type) ==
    SelectSeq(st.records,
              LAMBDA record : query_accepts(record, selections, default_type))

(***************************************************************************)
(* auth.rs: the authentication manager.                                    *)
(*                                                                         *)
(* The key and signature formats of the ssh_key and base64 libraries are   *)
(* modelled by a small encoding.  A key pair is named by one character of  *)
(* KeyData.  The OpenSSH text of a public key is "k", the key data, and    *)
(* the comment; its base64 raw form is "r" and the key data.  The base64   *)
(* text of a signature is "g", the key data of the signing key pair, and   *)
(* the signed message: a signature verifies under a public key exactly     *)
(* when it was made by that key pair over the message presented.           *)
(***************************************************************************)
KeyData == {"A", "U", "B", "X"}

\* enum SecurityTier
Open == "Open"
Protected == "Protected"
Scoped == "Scoped"
SecurityTier == {Open, Protected, Scoped}

ext_pub == <<"p", "u", "b">>
ext_txt == <<"t", "x", "t">>
stem_ops_admin == <<"o", "p", "s", "_", "a", "d", "m", "i", "n">>
stem_bob_user == <<"b", "o", "b", "_", "u", "s", "e", "r">>
stem_backup == <<"b", "a", "c", "k", "u", "p">>
stem_notes == <<"n", "o", "t", "e", "s">>
stem_broken == <<"b", "r", "o", "k", "e", "n">>
id_guest == <<"g", "u", "e", "s", "t">>

\* The files of the keys directory read by AuthManager::new
KeysDir ==
    { [stem |-> stem_ops_admin, ext |-> ext_pub, content |-> <<"k", "A", "o", "p", "s">>],
      [stem |-> stem_bob_user,  ext |-> ext_pub, content |-> <<"k", "U">>],
      [stem |-> stem_backup,    ext |-> ext_pub, content |-> <<"k", "B">>],
      [stem |-> stem_notes,     ext |-> ext_txt, content |-> <<"k", "X">>],
      [stem |-> stem_broken,    ext |-> ext_pub, content |-> <<"z", "z">>] }

\* PublicKey::from_openssh
PublicKey_from_openssh(s) ==
    IF Len(s) >= 2 /\ s[1] = "k" /\ s[2] \in KeyData
    THEN [ok |-> TRUE, key |-> [key_data |-> s[2], comment |-> SubSeq(s, 3, Len(s))]]
    ELSE [ok |-> FALSE, key |-> [key_data |-> "", comment |-> <<>>]]

\* STANDARD.decode: the texts that are base64, decoded to themselves
Base64_decode(s) ==
    IF s # <<>> /\ s[1] \in {"r", "g"}
    THEN [ok |-> TRUE, bytes |-> s] ELSE [ok |-> FALSE, bytes |-> <<>>]

\* PublicKey::from_bytes
PublicKey_from_bytes(b) ==
    IF Len(b) = 2 /\ b[1] = "r" /\ b[2] \in KeyData
    THEN [ok |-> TRUE, key |-> [key_data |-> b[2], comment |-> <<>>]]
    ELSE [ok |-> FALSE, key |-> [key_data |-> "", comment |-> <<>>]]

\* Signature::new(algorithm, bytes)
Signature_new(b) ==
    IF Len(b) >= 2 /\ b[1] = "g" /\ b[2] \in KeyData
    THEN [ok |-> TRUE, signer |-> b[2], message |-> SubSeq(b, 3, Len(b))]
    ELSE [ok |-> FALSE, signer |-> "", message |-> <<>>]

\* KeyData::verify(message, signature)
KeyData_verify(key_data, message, sig) ==
    sig.signer = key_data /\ sig.message = message

\* The key decoding shared by verify and get_roles: OpenSSH text first,
\* then base64 of the raw bytes
decode_public_key(public_key_b64) ==
    IF PublicKey_from_openssh(public_key_b64).ok
    THEN PublicKey_from_openssh(public_key_b64)
    ELSE IF Base64_decode(public_key_b64).ok
    THEN PublicKey_from_bytes(Base64_decode(public_key_b64).bytes)
    ELSE [ok |-> FALSE, key |-> [key_data |-> "", comment |-> <<>>]]

\* The roles AuthManager::new derives from a file stem
roles_of_stem(stem) ==
    IF contains(stem, kw_admin) THEN <<kw_admin>>
    ELSE IF contains(stem, kw_user) THEN <<kw_user>>
    ELSE <<>>

\* AuthManager::new.  key_roles is keyed by the encoded key bytes, which
\* leave out the comment.  No two files of KeysDir hold the same key.
AuthManager_new(keys_dir) ==
    LET loaded == {f \in keys_dir :
                      f.ext = ext_pub /\ PublicKey_from_openssh(f.content).ok}
    IN  [authorized_keys |-> {PublicKey_from_openssh(f.content).key : f \in loaded},
         key_roles |->
            [k \in {PublicKey_from_openssh(f.content).key.key_data : f \in loaded} |->
                roles_of_stem((CHOOSE f \in loaded :
                    PublicKey_from_openssh(f.content).key.key_data = k).stem)]]

\* verify with the signature checked over the message it carries instead of
\* over the challenge of the session
AuthManager_verify_any_message(mgr, public_key_b64, signature_b64, challenge) ==
    LET pk == decode_public_key(public_key_b64)
        sig_bytes == Base64_decode(signature_b64)
        signature == Signature_new(sig_bytes.bytes)
    IN  /\ pk.ok
        /\ pk.key \in mgr.authorized_keys
        /\ sig_bytes.ok
        /\ signature.ok
        /\ KeyData_verify(pk.key.key_data, signature.message, signature)

\* AuthManager::verify
AuthManager_verify(mgr, public_key_b64, signature_b64, challenge) ==
    LET pk == decode_public_key(public_key_b64)
        sig_bytes == Base64_decode(signature_b64)
        signature == Signature_new(sig_bytes.bytes)
    IN  /\ pk.ok
        /\ pk.key \in mgr.authorized_keys
        /\ sig_bytes.ok
        /\ signature.ok
        /\ KeyData_verify(pk.key.key_data, challenge, signature)

\* AuthManager::get_roles
AuthManager_get_roles(mgr, public_key_b64) ==
    LET pk == decode_public_key(public_key_b64)
    IN  IF pk.ok /\ pk.key.key_data \in DOMAIN mgr.key_roles
        THEN mgr.key_roles[pk.key.key_data] ELSE <<>>

\* The manager every session shares: built once at startup
auth_manager == AuthManager_new(KeysDir)

(***************************************************************************)
(* middleware.rs: the client context and the middleware chain.             *)
(***************************************************************************)
r_ready == <<"2", "0", "0", ":", "D", "a", "t", "a", "b", "a", "s", "e", " ", "r", "e", "a", "d", "y", "\n">>
r_status == <<"1", "0", "0", ":", "P", "h", "a", "r", "o", "s", " ", "s", "e", "r", "v", "e", "r", " ", "a", "c", "t", "i", "v", "e", "\n", "2", "0", "0", ":", "O", "k", "\n">>
r_ok == <<"2", "0", "0", ":", "O", "k", "\n">>
r_forbidden == <<"4", "0", "3", ":", "F", "o", "r", "b", "i", "d", "d", "e", "n", "\n">>
r_bye == <<"2", "0", "0", ":", "B", "y", "e", "!", "\n">>
r_401_prefix == <<"4", "0", "1", ":", "A", "u", "t", "h", "e", "n", "t", "i", "c", "a", "t", "i", "o", "n", " ", "r", "e", "q", "u", "i", "r", "e", "d", ".", " ", "C", "h", "a", "l", "l", "e", "n", "g", "e", ":", " ">>
r_501 == <<"5", "0", "1", ":", "N", "o", " ", "m", "a", "t", "c", "h", "e", "s", " ", "t", "o", " ", "q", "u", "e", "r", "y", "\n">>
r_102_prefix == <<"1", "0", "2", ":", "T", "h", "e", "r", "e", " ", "w", "e", "r", "e", " ">>
r_102_suffix == <<" ", "m", "a", "t", "c", "h", "e", "s", " ", "t", "o", " ", "y", "o", "u", "r", " ", "r", "e", "q", "u", "e", "s", "t", ".", "\n">>
r_row_prefix == <<"-", "2", "0", "0", ":">>
r_598_nyi == <<"5", "9", "8", ":", "C", "o", "m", "m", "a", "n", "d", " ", "n", "o", "t", " ", "y", "e", "t", " ", "i", "m", "p", "l", "e", "m", "e", "n", "t", "e", "d", "\n">>
r_598_unknown == <<"5", "9", "8", ":", "C", "o", "m", "m", "a", "n", "d", " ", "u", "n", "k", "n", "o", "w", "n", "\n">>
r_599_syntax == <<"5", "9", "9", ":", "S", "y", "n", "t", "a", "x", " ", "e", "r", "r", "o", "r", "\n">>
r_512 == <<"5", "1", "2", ":", "I", "l", "l", "e", "g", "a", "l", " ", "v", "a", "l", "u", "e", "\n">>
r_500_read_only == <<"5", "0", "0", ":", "R", "e", "a", "d", "-", "o", "n", "l", "y", " ", "a", "c", "c", "e", "s", "s", " ", "p", "e", "r", "m", "i", "t", "t", "e", "d", " ", "f", "o", "r", " ", "t", "h", "i", "s", " ", "I", "D", "\n">>
r_401_protected == <<"4", "0", "1", ":", "A", "u", "t", "h", "e", "n", "t", "i", "c", "a", "t", "i", "o", "n", " ", "r", "e", "q", "u", "i", "r", "e", "d", " ", "f", "o", "r", " ", "P", "r", "o", "t", "e", "c", "t", "e", "d", " ", "t", "i", "e", "r", "\n">>
r_401_scoped == <<"4", "0", "1", ":", "A", "u", "t", "h", "e", "n", "t", "i", "c", "a", "t", "i", "o", "n", " ", "r", "e", "q", "u", "i", "r", "e", "d", " ", "f", "o", "r", " ", "S", "c", "o", "p", "e", "d", " ", "t", "i", "e", "r", "\n">>
r_403_admin == <<"4", "0", "3", ":", "F", "o", "r", "b", "i", "d", "d", "e", "n", ":", " ", "A", "d", "m", "i", "n", " ", "r", "o", "l", "e", " ", "r", "e", "q", "u", "i", "r", "e", "d", " ", "f", "o", "r", " ", "w", "r", "i", "t", "e", " ", "o", "p", "e", "r", "a", "t", "i", "o", "n", "s", "\n">>

\* ClientContext::default (the peer address only feeds log records)
ClientContext_default ==
    [id |-> None, authenticated |-> FALSE, roles |-> <<>>, tier |-> Open]

\* enum MiddlewareAction
Continue == [action |-> "Continue", response |-> <<>>]
ShortCircuit(response) == [action |-> "ShortCircuit", response |-> response]

\* The middlewares a chain is made of
LoggingMiddleware == [type |-> "Logging", read_only_ids |-> {}, default_tier |-> Open]
ReadOnlyMiddleware(ids) == [type |-> "ReadOnly", read_only_ids |-> ids, default_tier |-> Open]
SecurityTierMiddleware(tier) == [type |-> "SecurityTier", read_only_ids |-> {}, default_tier |-> tier]

is_write_command(command) == command.kind \in {"Add", "Delete", "Change"}

\* The bypass list with the write commands on it as well
is_auth_bypassed_writes(command) ==
    command.kind \in {"Status", "Id", "Auth", "Quit", "Add", "Delete", "Change"}

is_auth_bypassed(command) == command.kind \in {"Status", "Id", "Auth", "Quit"}

\* The read-only handler without the test for a write command
ReadOnlyMiddleware_pre_process_any_command(mw, command, context) ==
    IF context.id.some /\ context.id.val \in mw.read_only_ids
    THEN [result |-> ShortCircuit(r_500_read_only), context |-> context]
    ELSE [result |-> Continue, context |-> context]

\* ReadOnlyMiddleware::pre_process
ReadOnlyMiddleware_pre_process(mw, command, context) ==
    IF is_write_command(command)
       /\ context.id.some /\ context.id.val \in mw.read_only_ids
    THEN [result |-> ShortCircuit(r_500_read_only), context |-> context]
    ELSE [result |-> Continue, context |-> context]

\* The security-tier handler with the Open tier enforced like Protected
SecurityTierMiddleware_pre_process_open_enforced(mw, command, context) ==
    LET stamped == [context EXCEPT !.tier = mw.default_tier]
    IN  IF ~is_auth_bypassed(command) /\ ~stamped.authenticated
        THEN [result |-> ShortCircuit(IF mw.default_tier = Scoped
                                      THEN r_401_scoped ELSE r_401_protected),
              context |-> stamped]
        ELSE IF mw.default_tier = Scoped /\ is_write_command(command)
                /\ ~\E i \in 1..Len(stamped.roles) : stamped.roles[i] = kw_admin
        THEN [result |-> ShortCircuit(r_403_admin), context |-> stamped]
        ELSE [result |-> Continue, context |-> stamped]

\* The security-tier handler with the role check of Scoped made before the
\* authentication check
SecurityTierMiddleware_pre_process_role_first(mw, command, context) ==
    LET stamped == [context EXCEPT !.tier = mw.default_tier]
    IN  IF mw.default_tier = Open
        THEN [result |-> Continue, context |-> stamped]
        ELSE IF mw.default_tier = Scoped /\ is_write_command(command)
                /\ ~\E i \in 1..Len(stamped.roles) : stamped.roles[i] = kw_admin
        THEN [result |-> ShortCircuit(r_403_admin), context |-> stamped]
        ELSE IF ~is_auth_bypassed(command) /\ ~stamped.authenticated
        THEN [result |-> ShortCircuit(IF mw.default_tier = Scoped
                                      THEN r_401_scoped ELSE r_401_protected),
              context |-> stamped]
        ELSE [result |-> Continue, context |-> stamped]

\* SecurityTierMiddleware::pre_process
SecurityTierMiddleware_pre_process(mw, command, context) ==
    LET stamped == [context EXCEPT !.tier = mw.default_tier]
    IN  IF mw.default_tier = Open
        THEN [result |-> Continue, context |-> stamped]
        ELSE IF mw.default_tier = Protected THEN
            IF ~is_auth_bypassed(command) /\ ~stamped.authenticated
            THEN [result |-> ShortCircuit(r_401_protected), context |-> stamped]
            ELSE [result |-> Continue, context |-> stamped]
        ELSE
            IF ~is_auth_bypassed(command) /\ ~stamped.authenticated
            THEN [result |-> ShortCircuit(r_401_scoped), context |-> stamped]
            ELSE IF is_write_command(command)
                    /\ ~\E i \in 1..Len(stamped.roles) : stamped.roles[i] = kw_admin
            THEN [result |-> ShortCircuit(r_403_admin), context |-> stamped]
            ELSE [result |-> Continue, context |-> stamped]

\* Middleware::pre_process of one middleware (LoggingMiddleware only logs)
Middleware_pre_process(mw, command, context) ==
    IF mw.type = "ReadOnly" THEN ReadOnlyMiddleware_pre_process(mw, command, context)
    ELSE IF mw.type = "SecurityTier"
    THEN SecurityTierMiddleware_pre_process(mw, command, context)
    ELSE [result |-> Continue, context |-> context]

\* The chain loop without the return at the first ShortCircuit: the later
\* handlers still run and the first short-circuit response is returned
RECURSIVE pre_process_run_all(_, _, _, _, _)
pre_process_run_all(chain, i, command, context, ran) ==
    IF i > Len(chain)
    THEN [result |-> Continue, context |-> context, ran |-> ran]
    ELSE LET r == Middleware_pre_process(chain[i], command, context)
             rest == pre_process_run_all(chain, i + 1, command, r.context,
                        Append(ran, [index |-> i, result |-> r.result]))
         IN  IF r.result.action = "Continue" THEN rest
             ELSE [result |-> r.result, context |-> rest.context, ran |-> rest.ran]

\* MiddlewareChain::pre_process, from middleware i on.  ran lists, for
\* every handler that ran, its position in the chain and its result.
RECURSIVE pre_process_from(_, _, _, _, _)
pre_process_from(chain, i, command, context, ran) ==
    IF i > Len(chain)
    THEN [result |-> Continue, context |-> context, ran |-> ran]
    ELSE LET r == Middleware_pre_process(chain[i], command, context)
             ran2 == Append(ran, [index |-> i, result |-> r.result])
         IN  IF r.result.action = "Continue"
             THEN pre_process_from(chain, i + 1, command, r.context, ran2)
             ELSE [result |-> r.result, context |-> r.context, ran |-> ran2]

MiddlewareChain_pre_process(chain, command, context) ==
    pre_process_from(chain, 1, command, context, <<>>)

\* MiddlewareChain::post_process: the positions of the handlers that run
MiddlewareChain_post_process(chain) == [i \in 1..Len(chain) |-> i]

(***************************************************************************)
(* lib.rs: the session loop of handle_connection.                          *)
(***************************************************************************)
\* Bounds of the model
MaxRecords == 1
Sessions == {1, 2}

\* The length in bytes of the challenge buffer
ChallengeLen == 16

\* hex::encode: two lower-case hexadecimal digits for every byte
hex_digits ==
    <<"0", "1", "2", "3", "4", "5", "6", "7", "8", "9", "a", "b", "c", "d", "e", "f">>

RECURSIVE hex_encode(_)
hex_encode(bytes) ==
    IF bytes = <<>> THEN <<>>
    ELSE <<hex_digits[(bytes[1] \div 16) + 1], hex_digits[(bytes[1] % 16) + 1]>>
         \o hex_encode(Tail(bytes))

\* The byte buffers OsRng.fill_bytes leaves in the challenge, cut down to
\* two: the bytes 00, 11, .., ff and the same bytes in descending order
challenge_bytes_a == [i \in 1..ChallengeLen |-> ((i - 1) * 17) % 256]
challenge_bytes_b == [i \in 1..ChallengeLen |-> 255 - (((i - 1) * 17) % 256)]

challenge_a == hex_encode(challenge_bytes_a)
challenge_b == hex_encode(challenge_bytes_b)

Challenges == {challenge_a, challenge_b}

\* ssh_key SshSig::signed_data: what PrivateKey::sign signs is not the
\* message but the blob of the magic preamble, the namespace, the name of
\* the hash and the digest of the message (the digest stands for itself)
signed_data(namespace, msg) ==
    <<"S", "S", "H", "S", "I", "G">> \o namespace
    \o <<"s", "h", "a", "2", "5", "6">> \o msg

\* The key pair of the PharosClient: its key data and its comment
ClientKey == [key_data |-> "A", comment |-> <<"o", "p", "s">>]

\* PharosClient::sign_challenge: the OpenSSH text of the public key and the
\* base64 text of the signature PrivateKey::sign makes with the empty
\* namespace, or the error of a sign that refuses the empty namespace
sign_challenge(key, challenge) ==
    {[ok |-> FALSE, pub_key_ssh |-> <<>>, sig_b64 |-> <<>>],
     [ok |-> TRUE,
      pub_key_ssh |-> <<"k", key.key_data>> \o key.comment,
      sig_b64 |-> <<"g", key.key_data>> \o signed_data(<<>>, challenge)]}

\* format!: the auth line of execute_authenticated, both texts in quotes
auth_line(signed) ==
    <<"a", "u", "t", "h", " ", "\"">> \o signed.pub_key_ssh
    \o <<"\"", " ", "\"">> \o signed.sig_b64 \o <<"\"">>

\* The auth line of the client for a challenge
client_auth_line(challenge) ==
    auth_line(CHOOSE signed \in sign_challenge(ClientKey, challenge) :
                  signed.ok)

\* The request lines a client sends, as read_line delivers them (without
\* the line feed)
RequestLines ==
    << <<"s", "t", "a", "t", "u", "s">>,
       <<"i", "d", " ", "G", "u", "e", "s", "t">>,
       <<"I", "D", " ", "A", "d", "m", "i", "n", "\r">>,
       <<"a", "u", "t", "h", " ", "k", "A", "o", "p", "s", " ", "g", "A">> \o challenge_a,
       <<"a", "u", "t", "h", " ", "k", "A", "o", "p", "s", " ", "g", "A">> \o challenge_b,
       <<"a", "u", "t", "h", " ", "r", "U", " ", "g", "U">> \o challenge_a,
       <<"a", "u", "t", "h", " ", "k", "X", " ", "g", "X">> \o challenge_a,
       <<"a", "u", "t", "h", " ", "k", "A", " ", "g", "A">> \o challenge_a,
       <<"a", "u", "t", "h", " ", "k", "A", "o", "p", "s", " ", "g", "U">> \o challenge_a,
       <<"a", "u", "t", "h", " ", "k", "A", "o", "p", "s", " ", "z", "z">>,
       <<"a", "u", "t", "h", " ", "k", "A", "o", "p", "s">>,
       <<"a", "d", "d", " ", "n", "a", "m", "e", "=", "x">>,
       <<"a", "d", "d", " ", "n", "a", "m", "e", "=", "\"", "a", "\\", "n", "2", "0", "0", ":", "O", "k", "\"">>,
       <<"a", "d", "d", " ", "n", "a", "m", "e">>,
       <<"q", "u", "e", "r", "y", " ", "n", "a", "m", "e", "=", "a">>,
       <<"q", "u", "e", "r", "y", " ", "r", "e", "t", "u", "r", "n", " ", "n", "a", "m", "e">>,
       <<"p", "h", " ", "x">>,
       <<"d", "e", "l", "e", "t", "e", " ", "n", "a", "m", "e", "=", "x">>,
       <<"c", "h", "a", "n", "g", "e", " ", "n", "a", "m", "e", "=", "x", " ", "m", "a", "k", "e", " ", "n", "a", "m", "e", "=", "y">>,
       <<"s", "i", "t", "e", "i", "n", "f", "o">>,
       <<"x", "l", "o", "g", "i", "n", " ", "x", " ", "y">>,
       <<"b", "o", "g", "u", "s">>,
       <<"q", "u", "e", "r", "y", " ", "\"", "u", "n", "c", "l", "o", "s", "e", "d">>,
       <<"q", "u", "i", "t">>,
       <<" ", " ", " ">>,
       <<>>,
       <<"i", "d", " ", "P", "H">>,
       <<"i", "d", " ", "m", "d", "b">>,
       <<"i", "d", " ", "M", "D", "B", "-", "P", "h", "i", "l">>,
       <<"q", "u", "e", "r", "y", " ", "n", "a", "m", "e", "=", "s", "e", "r", "v", "e", "r">>,
       <<"q", "u", "e", "r", "y">>,
       <<"q", "u", "e", "r", "y", " ", "r", "e", "t", "u", "r", "n", " ", "n", "a", "m", "e", " ", "e", "m", "a", "i", "l">>,
       <<"q", "u", "e", "r", "y", " ", "r", "e", "t", "u", "r", "n", " ", "n", "a", "m", "e", " ", "n", "a", "m", "e">>,
       <<"q", "u", "e", "r", "y", " ", "t", "y", "p", "e", "=", "m", "a", "c", "h", "i", "n", "e">>,
       <<"q", "u", "e", "r", "y", " ", "n", "a", "m", "e", "=", "j", "*", " ", "r", "e", "t", "u", "r", "n", " ", "e", "m", "a", "i", "l", " ", "p", "h", "o", "n", "e">>,
       <<"p", "h", " ", "d", "o", "e">>,
       <<"e", "x", "i", "t">>,
       <<"S", "T", "O", "P">>,
       <<"s", "e", "t">>,
       <<"l", "o", "g", "i", "n", " ", "u">>,
       <<"l", "o", "g", "o", "u", "t">>,
       <<"a", "n", "s", "w", "e", "r", " ", "a">>,
       <<"c", "l", "e", "a", "r", " ", "p">>,
       <<"e", "m", "a", "i", "l", " ", "e">>,
       <<"x", "l", "o", "g", "i", "n", " ", "1", " ", "u">>,
       <<"f", "i", "e", "l", "d", "s">>,
       <<"h", "e", "l", "p">>,
       <<"D", "e", "l", "e", "t", "e">>,
       <<"c", "h", "a", "n", "g", "e", " ", "x">>,
       client_auth_line(challenge_a),
       client_auth_line(challenge_b),
       <<"a", "d", "d", " ", "n", "a", "m", "e", "=", "x", " ", "t", "y", "p", "e", "=", "P", "E", "R", "S", "O", "N">>,
       <<"a", "d", "d", " ", "t", "y", "p", "e", "=", "p", "r", "i", "n", "t", "e", "r">> >>

\* The middleware chains the server is started with
ReadOnlyIds == {id_guest}

Chains ==
    {<<ReadOnlyMiddleware(ReadOnlyIds)>>,
     <<ReadOnlyMiddleware(ReadOnlyIds), SecurityTierMiddleware(Scoped)>>}
    \cup {<<LoggingMiddleware, SecurityTierMiddleware(t),
            ReadOnlyMiddleware(ReadOnlyIds)>> : t \in SecurityTier}

VARIABLES
    middleware_chain,   \* the chain handed to every handle_connection
    storage,            \* the shared store: records and next_id
    pc,                 \* per session: "idle" (no connection) or "open"
    context,            \* per session: its ClientContext
    challenge_hex,      \* per session: the challenge drawn at accept
    ev,                 \* the last step taken: what was read, run and written
    backend,            \* the Storage behind the lock: Memory, File or Ldap
    lock,               \* the RwLock of the store: its readers and its writer
    task,               \* per session: where its handle_connection stands
    loaded,             \* the number of records load_from_disk found
    acked,              \* the number of adds answered 200:Ok so far
    disk,               \* the data file of a FileStorage
    call,               \* a function of the program called on its own
    client              \* the PharosClient at the other end of session 1

vars == <<middleware_chain, storage, pc, context, challenge_hex, ev,
          backend, lock, task, loaded, acked, disk, call, client>>

\* The variables outside the server: its steps leave them alone
outside_vars == <<call, client>>

\* No function called yet: the function, its arguments and what it returned
Call_none == [fn |-> "", args |-> <<>>, result |-> <<>>]

\* The data file: whether the path exists, and its text
File_none == [exists |-> FALSE, data |-> <<>>]

\* No client: the sessions are driven by request lines alone
Client_none == [at |-> "none"]

\* The variables that follow a session between its suspension points; the
\* actions that take a whole command in one step leave them alone
task_vars == <<backend, lock, task, loaded, acked, disk>>

\* RwLock::new: no reader and no writer (0 stands for no session), and
\* not poisoned
RwLock_new == [readers |-> {}, writer |-> 0, poisoned |-> FALSE]

\* A task that is not inside a command: it is about to call read_line.
\* line is the request line in process, writes the buffers the command
\* hands to write_all in order, sent how many of them were written, post
\* whether post_process follows the last one and close whether the loop is
\* left after it.
Task_idle ==
    [at |-> "read_line", line |-> 0, writes |-> <<>>, sent |-> 0,
     post |-> FALSE, close |-> FALSE]

\* i is the position in RequestLines of the line read (0 when none was)
Event(s, i, outcome, kind, pre, post, response) ==
    [session |-> s, index |-> i, outcome |-> outcome, kind |-> kind,
     pre |-> pre, post |-> post, response |-> response]

\* Insertion of a key into a sorted list of keys: keys.sort()
RECURSIVE sort_insert(_, _)
sort_insert(sorted, k) ==
    IF sorted = <<>> THEN <<k>>
    ELSE IF str_less(k, sorted[1]) THEN <<k>> \o sorted
    ELSE <<sorted[1]>> \o sort_insert(Tail(sorted), k)

RECURSIVE sort_keys(_)
sort_keys(keys) ==
    IF keys = <<>> THEN <<>>
    ELSE sort_insert(sort_keys(Tail(keys)), keys[1])

\* HashMap::keys: the keys of a map in the order its iterator yields them,
\* which depends on the hasher state of the map; any order can come up.
RECURSIVE HashMap_keys(_)
HashMap_keys(S) ==
    IF S = {} THEN {<<>>}
    ELSE UNION {{<<x>> \o rest : rest \in HashMap_keys(S \ {x})} : x \in S}

\* One order of iteration for each record of a list
RECURSIVE keys_iterations(_)
keys_iterations(records) ==
    IF records = <<>> THEN {<<>>}
    ELSE {<<o>> \o rest : o \in HashMap_keys(DOMAIN records[1].fields),
                          rest \in keys_iterations(Tail(records))}

\* The keys collected for one record, without keys.sort()
row_keys_unsorted(record, returns, keys) ==
    IF returns = <<>> THEN keys
    ELSE SelectSeq(returns, LAMBDA k : k \in DOMAIN record.fields)

\* The keys collected for one record with the return clause left unread
row_keys_all_fields(record, returns, keys) == sort_keys(keys)

\* The keys whose rows are written for one record; keys is the order in
\* which record.fields.keys() yields the keys of the record
row_keys(record, returns, keys) ==
    sort_keys(IF returns = <<>> THEN keys
              ELSE SelectSeq(returns, LAMBDA k : k \in DOMAIN record.fields))

\* The data rows of one record, numbered as enumerate() counts, from 0
RECURSIVE record_rows_from_zero(_, _, _)
record_rows_from_zero(record, index, keys) ==
    IF keys = <<>> THEN <<>>
    ELSE r_row_prefix \o to_decimal(index - 1) \o <<":">> \o keys[1] \o <<":", " ">>
         \o record.fields[keys[1]] \o <<"\n">>
         \o record_rows_from_zero(record, index, Tail(keys))

\* The data rows of one record
RECURSIVE record_rows(_, _, _)
record_rows(record, index, keys) ==
    IF keys = <<>> THEN <<>>
    ELSE r_row_prefix \o to_decimal(index) \o <<":">> \o keys[1] \o <<":", " ">>
         \o record.fields[keys[1]] \o <<"\n">>
         \o record_rows(record, index, Tail(keys))

RECURSIVE all_rows(_, _, _, _)
all_rows(records, i, returns, iters) ==
    IF i > Len(records) THEN <<>>
    ELSE record_rows(records[i], i, row_keys(records[i], returns, iters[i]))
         \o all_rows(records, i + 1, returns, iters)

\* The default type with the test for mdb made first
default_type_of_mdb_first(ctx) ==
    IF ctx.id.some /\ contains(ctx.id.val, kw_mdb) THEN Machine
    ELSE IF ctx.id.some /\ contains(ctx.id.val, kw_ph) THEN Person
    ELSE NoType

\* The default type of a query, from the client id
default_type_of(ctx) ==
    IF ctx.id.some /\ contains(ctx.id.val, kw_ph) THEN Person
    ELSE IF ctx.id.some /\ contains(ctx.id.val, kw_mdb) THEN Machine
    ELSE NoType

\* The 401 of the write arms with a challenge drawn anew for the response
r_401_challenge_redrawn(challenge) ==
    r_401_prefix \o (CHOOSE c \in Challenges : c # challenge) \o <<"\n">>

\* The 401 of the write arms
r_401_challenge(challenge) == r_401_prefix \o challenge \o <<"\n">>

Outcome(ctx, st, response, post, close) ==
    [context |-> ctx, storage |-> st, response |-> response,
     post |-> post, close |-> close]

\* dispatch_add without the authenticated check
dispatch_add_unchecked(command, ctx, challenge, st) ==
    Outcome(ctx, add_record(st, field_map_of(command.pairs)), r_ok, TRUE, FALSE)

\* The Command::Add arm
dispatch_add(command, ctx, challenge, st) ==
    IF ~ctx.authenticated
    THEN Outcome(ctx, st, r_401_challenge(challenge), FALSE, FALSE)
    ELSE Outcome(ctx, add_record(st, field_map_of(command.pairs)), r_ok, TRUE, FALSE)

\* The Command::Auth arm with the flag assigned what verify returned
dispatch_auth_flag_assigned(command, ctx, challenge, st) ==
    IF AuthManager_verify(auth_manager, command.public_key, command.signature,
                          challenge)
    THEN Outcome([ctx EXCEPT !.authenticated = TRUE], st, r_ok, TRUE, FALSE)
    ELSE Outcome([ctx EXCEPT !.authenticated = FALSE], st, r_forbidden, TRUE, FALSE)

\* The Command::Auth arm
dispatch_auth(command, ctx, challenge, st) ==
    IF AuthManager_verify(auth_manager, command.public_key, command.signature,
                          challenge)
    THEN Outcome([ctx EXCEPT !.authenticated = TRUE], st, r_ok, TRUE, FALSE)
    ELSE Outcome(ctx, st, r_forbidden, TRUE, FALSE)

\* The Command::Query arm: one outcome for every order in which the field
\* maps of the matching records can be iterated
dispatch_query(command, ctx, challenge, st) ==
    LET records == query(st, command.selections, default_type_of(ctx))
    IN  IF records = <<>>
        THEN {Outcome(ctx, st, r_501, TRUE, FALSE)}
        ELSE {Outcome(ctx, st,
                      r_102_prefix \o to_decimal(Len(records)) \o r_102_suffix
                      \o all_rows(records, 1, command.returns, iters) \o r_ok,
                      TRUE, FALSE) : iters \in keys_iterations(records)}

\* The Command::Delete and Command::Change arms without the authenticated
\* check
dispatch_unimplemented_write_unchecked(command, ctx, challenge, st) ==
    Outcome(ctx, st, r_598_nyi, TRUE, FALSE)

\* The Command::Delete and Command::Change arms
dispatch_unimplemented_write(command, ctx, challenge, st) ==
    IF ~ctx.authenticated
    THEN Outcome(ctx, st, r_401_challenge(challenge), FALSE, FALSE)
    ELSE Outcome(ctx, st, r_598_nyi, TRUE, FALSE)

\* The Command::Status arm answering 200:Ok alone
dispatch_status_ok_only(command, ctx, challenge, st) ==
    Outcome(ctx, st, r_ok, TRUE, FALSE)

\* The Command::Status arm
dispatch_status(command, ctx, challenge, st) ==
    Outcome(ctx, st, r_status, TRUE, FALSE)

\* The Command::Quit arm without its break
dispatch_quit_loop_kept(command, ctx, challenge, st) ==
    Outcome(ctx, st, r_bye, TRUE, FALSE)

\* The Command::Quit arm
dispatch_quit(command, ctx, challenge, st) ==
    Outcome(ctx, st, r_bye, FALSE, TRUE)

\* The Command::Id arm
dispatch_id(command, ctx, challenge, st) ==
    Outcome([ctx EXCEPT !.id = Some(to_lowercase(command.str))], st, r_ok,
            TRUE, FALSE)

\* match &command: the outcomes the arm of the command can have, each the
\* response written, the context and store left, whether control reaches
\* post_process, and whether the loop is left (the session then ends and
\* its context and challenge are dropped)
dispatch(command, ctx, challenge, st) ==
    IF command.kind = "Status" THEN {dispatch_status(command, ctx, challenge, st)}
    ELSE IF command.kind = "Id" THEN {dispatch_id(command, ctx, challenge, st)}
    ELSE IF command.kind = "Auth" THEN {dispatch_auth(command, ctx, challenge, st)}
    ELSE IF command.kind = "Quit" THEN {dispatch_quit(command, ctx, challenge, st)}
    ELSE IF command.kind = "Add" THEN {dispatch_add(command, ctx, challenge, st)}
    ELSE IF command.kind = "Query" THEN dispatch_query(command, ctx, challenge, st)
    ELSE IF command.kind \in {"Delete", "Change"}
    THEN {dispatch_unimplemented_write(command, ctx, challenge, st)}
    ELSE {Outcome(ctx, st, r_598_nyi, TRUE, FALSE)}

\* The Err arms with the syntax error answered as an unknown command
parse_error_response_merged(err) ==
    IF err = InvalidArgument THEN r_512 ELSE r_598_unknown

\* The response of the three Err arms
parse_error_response(err) ==
    IF err = UnknownCommand THEN r_598_unknown
    ELSE IF err = SyntaxError THEN r_599_syntax
    ELSE r_512

\* line.trim() and parse_command(input) for every request line of the model
Trimmed == [i \in 1..Len(RequestLines) |-> trim(RequestLines[i])]
Parsed == [i \in 1..Len(RequestLines) |-> parse_command(Trimmed[i])]

\* The lines a session sends.  Session 1 sends the first 26 request lines; the
\* other sessions are writers that identify, authenticate, add, query and
\* quit (id Guest, auth with the admin key over the first challenge,
\* add name=x, query name=a, quit).
LinesOf(s) == IF s = 1 THEN 1..26 ELSE {2, 4, 12, 15, 24}

Init ==
    /\ middleware_chain \in Chains
    /\ storage = MemoryStorage_new
    /\ pc = [s \in Sessions |-> "idle"]
    /\ context = [s \in Sessions |-> ClientContext_default]
    /\ challenge_hex = [s \in Sessions |-> <<>>]
    /\ ev = Event(0, 0, "init", "", <<>>, <<>>, <<>>)
    /\ backend = "Memory"
    /\ lock = RwLock_new
    /\ task = [s \in Sessions |-> Task_idle]
    /\ loaded = 0
    /\ acked = 0
    /\ disk = File_none
    /\ call = Call_none
    /\ client = Client_none

\* A connection is accepted: the context and the challenge are created and
\* the banner is written
Accept(s) ==
    /\ pc[s] = "idle"
    /\ \E c \in Challenges : challenge_hex' = [challenge_hex EXCEPT ![s] = c]
    /\ context' = [context EXCEPT ![s] = ClientContext_default]
    /\ pc' = [pc EXCEPT ![s] = "open"]
    /\ ev' = Event(s, 0, "accept", "", <<>>, <<>>, r_ready)
    /\ UNCHANGED <<middleware_chain, storage, task_vars>>
    /\ UNCHANGED outside_vars

\* read_line returns 0 bytes: the loop is left, handle_connection returns
\* and its context and challenge are dropped
EndOfInput(s) ==
    /\ pc[s] = "open"
    /\ pc' = [pc EXCEPT ![s] = "idle"]
    /\ context' = [context EXCEPT ![s] = ClientContext_default]
    /\ challenge_hex' = [challenge_hex EXCEPT ![s] = <<>>]
    /\ ev' = Event(s, 0, "eof", "", <<>>, <<>>, <<>>)
    /\ UNCHANGED <<middleware_chain, storage, task_vars>>
    /\ UNCHANGED outside_vars

\* A line that is empty after trim: nothing is written
EmptyLine(s, i) ==
    /\ pc[s] = "open"
    /\ Trimmed[i] = <<>>
    /\ ev' = Event(s, i, "empty", "", <<>>, <<>>, <<>>)
    /\ UNCHANGED <<middleware_chain, storage, pc, context, challenge_hex, task_vars>>
    /\ UNCHANGED outside_vars

\* A line parse_command rejects
ParseError(s, i) ==
    /\ pc[s] = "open"
    /\ Trimmed[i] # <<>>
    /\ ~Parsed[i].ok
    /\ ev' = Event(s, i, "parse_error", "", <<>>, <<>>,
                   parse_error_response(Parsed[i].err))
    /\ UNCHANGED <<middleware_chain, storage, pc, context, challenge_hex, task_vars>>
    /\ UNCHANGED outside_vars

\* A command a pre handler short-circuits
ShortCircuited(s, i) ==
    /\ pc[s] = "open"
    /\ Trimmed[i] # <<>>
    /\ Parsed[i].ok
    /\ \E pre \in {MiddlewareChain_pre_process(middleware_chain, Parsed[i].cmd,
                                                context[s])} :
          /\ pre.result.action = "ShortCircuit"
          /\ context' = [context EXCEPT ![s] = pre.context]
          /\ ev' = Event(s, i, "short_circuit", Parsed[i].cmd.kind,
                         pre.ran, <<>>, pre.result.response)
    /\ UNCHANGED <<middleware_chain, storage, pc, challenge_hex, task_vars>>
    /\ UNCHANGED outside_vars

\* The dispatch step with one context that all the sessions share
Dispatched_shared_context(s, i) ==
    /\ pc[s] = "open"
    /\ Trimmed[i] # <<>>
    /\ Parsed[i].ok
    /\ \E pre \in {MiddlewareChain_pre_process(middleware_chain, Parsed[i].cmd,
                                                context[s])} :
          /\ pre.result.action = "Continue"
          /\ \E out \in dispatch(Parsed[i].cmd, pre.context, challenge_hex[s],
                                  storage) :
                /\ out.storage # storage
                   => record_count(out.storage) <= MaxRecords
                /\ context' = [t \in Sessions |->
                                  IF out.close /\ t = s THEN ClientContext_default
                                  ELSE out.context]
                /\ challenge_hex' = [challenge_hex EXCEPT ![s] =
                                        IF out.close THEN <<>> ELSE @]
                /\ storage' = out.storage
                /\ pc' = [pc EXCEPT ![s] = IF out.close THEN "idle" ELSE "open"]
                /\ ev' = Event(s, i, "dispatched",
                               Parsed[i].cmd.kind, pre.ran,
                               IF out.post
                               THEN MiddlewareChain_post_process(middleware_chain)
                               ELSE <<>>,
                               out.response)
    /\ UNCHANGED <<middleware_chain, task_vars>>
    /\ UNCHANGED outside_vars

\* A command that passes the pre handlers and is dispatched
Dispatched(s, i) ==
    /\ pc[s] = "open"
    /\ Trimmed[i] # <<>>
    /\ Parsed[i].ok
    /\ \E pre \in {MiddlewareChain_pre_process(middleware_chain, Parsed[i].cmd,
                                                context[s])} :
          /\ pre.result.action = "Continue"
          /\ \E out \in dispatch(Parsed[i].cmd, pre.context, challenge_hex[s],
                                  storage) :
                /\ out.storage # storage
                   => record_count(out.storage) <= MaxRecords
                /\ context' = [context EXCEPT ![s] =
                                  IF out.close THEN ClientContext_default
                                  ELSE out.context]
                /\ challenge_hex' = [challenge_hex EXCEPT ![s] =
                                        IF out.close THEN <<>> ELSE @]
                /\ storage' = out.storage
                /\ pc' = [pc EXCEPT ![s] = IF out.close THEN "idle" ELSE "open"]
                /\ ev' = Event(s, i, "dispatched",
                               Parsed[i].cmd.kind, pre.ran,
                               IF out.post
                               THEN MiddlewareChain_post_process(middleware_chain)
                               ELSE <<>>,
                               out.response)
    /\ UNCHANGED <<middleware_chain, task_vars>>
    /\ UNCHANGED outside_vars

Next ==
    \E s \in Sessions :
        \/ Accept(s)
        \/ EndOfInput(s)
        \/ \E i \in LinesOf(s) :
              \/ EmptyLine(s, i)
              \/ ParseError(s, i)
              \/ ShortCircuited(s, i)
              \/ Dispatched(s, i)

Spec == Init /\ [][Next]_vars

(***************************************************************************)
(* The server started on a data file: FileStorage::new loads the records   *)
(* an earlier run persisted, and one client identifies itself and queries. *)
(***************************************************************************)
\* The records an earlier run can hold after this many adds, at most
MaxLoaded == 2

\* The field maps of the records the earlier run added
FieldMaps ==
    {field_map_of(p) : p \in {
        <<<<<<"n", "a", "m", "e">>, <<"J", "o", "h", "n", " ", "P", "e", "r", "s", "o", "n">>>>, <<<<"t", "y", "p", "e">>, <<"p", "e", "r", "s", "o", "n">>>>, <<<<"e", "m", "a", "i", "l">>, <<"j", "o", "h", "n", "@", "e", "x", "a", "m", "p", "l", "e", ".", "c", "o", "m">>>>>>,
        <<<<<<"n", "a", "m", "e">>, <<"S", "e", "r", "v", "e", "r", " ", "M", "a", "c", "h", "i", "n", "e">>>>, <<<<"t", "y", "p", "e">>, <<"m", "a", "c", "h", "i", "n", "e">>>>>>,
        <<<<<<"n", "a", "m", "e">>, <<"J", "a", "n", "e", " ", "D", "o", "e">>>>>>,
        <<<<<<"n", "a", "m", "e">>, <<"L", "a", "s", "e", "r">>>>, <<<<"t", "y", "p", "e">>, <<"P", "r", "i", "n", "t", "e", "r">>>>>> }}

\* FileStorage::persist_to_disk: the data file holds the record vector
RECURSIVE persisted(_)
persisted(n) ==
    IF n = 0 THEN {MemoryStorage_new.records}
    ELSE LET before == persisted(n - 1)
         IN  before \cup
             {add_record([records |-> r, next_id |-> Len(r) + 1], f).records :
                 r \in before, f \in FieldMaps}

\* The greatest of a set of ids, 0 for the empty set
max_id(ids) == IF ids = {} THEN 0 ELSE CHOOSE m \in ids : \A k \in ids : k <= m

\* FileStorage::load_from_disk on a data file that parses
load_from_disk(records) ==
    [records |-> records,
     next_id |-> max_id({records[k].id : k \in 1..Len(records)}) + 1]

(***************************************************************************)
(* storage.rs: FileStorage.  The data file holds the text that             *)
(* serde_json::to_string_pretty writes for the record vector, and          *)
(* serde_json::from_str reads it back.  The writer follows the pretty      *)
(* formatter (two spaces of indentation, one member per line); the reader  *)
(* follows the grammar of the object form of Vec<Record>.                  *)
(***************************************************************************)
\* A writer that leaves every character of a string as it is
escape_char_raw(c) == <<c>>

\* serde_json format_escaped_str_contents: one character of a string
escape_char(c) ==
    IF c = "\"" THEN <<"\\", "\"">>
    ELSE IF c = "\\" THEN <<"\\", "\\">>
    ELSE IF c = "\n" THEN <<"\\", "n">>
    ELSE IF c = "\r" THEN <<"\\", "r">>
    ELSE IF c = "\t" THEN <<"\\", "t">>
    ELSE <<c>>

RECURSIVE format_escaped_str_contents(_)
format_escaped_str_contents(s) ==
    IF s = <<>> THEN <<>>
    ELSE escape_char(s[1]) \o format_escaped_str_contents(Tail(s))

\* serde_json format_escaped_str: a string between quotes
format_escaped_str(s) == <<"\"">> \o format_escaped_str_contents(s) \o <<"\"">>

\* PrettyFormatter: the indentation of a nesting level
indent(level) == [i \in 1..(2 * level) |-> " "]

\* The members of a text list, one per line at a nesting level
RECURSIVE members(_, _)
members(texts, level) ==
    IF texts = <<>> THEN <<>>
    ELSE indent(level) \o texts[1]
         \o (IF Len(texts) = 1 THEN <<>> ELSE <<",">>) \o <<"\n">>
         \o members(Tail(texts), level)

\* PrettyFormatter: an object or an array with its members, whose closing
\* bracket stands at the nesting level; without members the brackets touch
bracketed(open, texts, close, level) ==
    IF texts = <<>> THEN <<open, close>>
    ELSE <<open, "\n">> \o members(texts, level + 1) \o indent(level)
         \o <<close>>

\* A member of an object: the key, a colon and a space, the value
member(key, text) == format_escaped_str(key) \o <<":", " ">> \o text

\* The orders in which a HashMap can hand out its keys
key_orders(fields) ==
    {p \in [1..Cardinality(DOMAIN fields) -> DOMAIN fields] :
        \A i, j \in DOMAIN p : p[i] = p[j] => i = j}

\* Serialize for HashMap<String, String>
fields_text(fields, keys, level) ==
    bracketed("{", [i \in 1..Len(keys) |->
                       member(keys[i], format_escaped_str(fields[keys[i]]))],
              "}", level)

\* Serialize for Option<RecordType>: None is null, a unit variant is its
\* name, the newtype variant Other is an object with the one member Other
record_type_text(record_type, level) ==
    IF record_type = NoType THEN <<"n", "u", "l", "l">>
    ELSE IF record_type.tag = "Other"
    THEN bracketed("{", <<member(<<"O", "t", "h", "e", "r">>,
                                 format_escaped_str(record_type.name))>>,
                   "}", level)
    ELSE IF record_type = Person
    THEN format_escaped_str(<<"P", "e", "r", "s", "o", "n">>)
    ELSE format_escaped_str(<<"M", "a", "c", "h", "i", "n", "e">>)

\* Serialize for Record: id, record_type and fields in declaration order
record_text(record, keys, level) ==
    bracketed("{",
        <<member(<<"i", "d">>, to_decimal(record.id)),
          member(<<"r", "e", "c", "o", "r", "d", "_", "t", "y", "p", "e">>,
                 record_type_text(record.record_type, level + 1)),
          member(<<"f", "i", "e", "l", "d", "s">>,
                 fields_text(record.fields, keys, level + 1))>>,
        "}", level)

\* serde_json::to_string_pretty of the record vector: every text it can
\* produce, one for each order of the keys of each field map
RECURSIVE record_texts(_)
record_texts(records) ==
    IF records = <<>> THEN {<<>>}
    ELSE {<<record_text(records[1], keys, 1)>> \o rest :
             keys \in key_orders(records[1].fields),
             rest \in record_texts(Tail(records))}

to_string_pretty(records) ==
    {bracketed("[", texts, "]", 0) : texts \in record_texts(records)}

\* serde_json Read: the first position from i on that holds no whitespace,
\* one past the end of the text when there is none
skip_whitespace(s, i) ==
    CHOOSE j \in i..(Len(s) + 1) :
        /\ j = Len(s) + 1 \/ ~is_whitespace(s[j])
        /\ \A k \in i..(j - 1) : is_whitespace(s[k])

\* The backslashes that stand directly before position k of a string that
\* opened at position i
backslashes_before(s, i, k) ==
    (k - 1) - max_id({j \in i..(k - 1) : s[j] # "\\"})

\* Whether position k closes the string that opens at position i, given
\* that no earlier position does: a quote after an even number of
\* backslashes
closes_string(s, i, k) ==
    s[k] = "\"" /\ backslashes_before(s, i, k) % 2 = 0

\* The closing quote of the string that opens at position i, 0 when the
\* string never ends
string_end(s, i) ==
    IF \E k \in (i + 1)..Len(s) : closes_string(s, i, k)
    THEN CHOOSE k \in (i + 1)..Len(s) :
             /\ closes_string(s, i, k)
             /\ \A m \in (i + 1)..(k - 1) : s[m] # "\"" \/ ~closes_string(s, i, m)
    ELSE 0

\* serde_json parse_escape on the escapes the writer produces and the
\* escaped solidus; a raw control character is refused
RECURSIVE parse_str(_)
parse_str(s) ==
    IF s = <<>> THEN [ok |-> TRUE, val |-> <<>>]
    ELSE IF s[1] = "\\"
    THEN IF Len(s) >= 2 /\ s[2] \in {"\"", "\\", "/", "n", "r", "t"}
         THEN LET rest == parse_str(SubSeq(s, 3, Len(s)))
                  c == IF s[2] = "n" THEN "\n" ELSE IF s[2] = "r" THEN "\r"
                       ELSE IF s[2] = "t" THEN "\t" ELSE s[2]
              IN  [ok |-> rest.ok, val |-> <<c>> \o rest.val]
         ELSE [ok |-> FALSE, val |-> <<>>]
    ELSE IF Code(s[1]) < 32 THEN [ok |-> FALSE, val |-> <<>>]
    ELSE LET rest == parse_str(Tail(s))
         IN  [ok |-> rest.ok, val |-> <<s[1]>> \o rest.val]

\* The end of the run of digits that starts at position i
digits_end(s, i) ==
    CHOOSE j \in i..Len(s) :
        /\ \A k \in i..j : is_digit(s[k])
        /\ j = Len(s) \/ ~is_digit(s[j + 1])

starts_with_at(s, i, word) ==
    /\ i + Len(word) - 1 <= Len(s)
    /\ SubSeq(s, i, i + Len(word) - 1) = word

Token(t, v) == [t |-> t, v |-> v]

\* The tokens of a JSON text from position i on.  A token is a bracket, a
\* colon, a comma, a string, a number of digits or null; anything else is
\* the token err, which ends the list
RECURSIVE tokens(_, _)
tokens(s, i) ==
    LET j == skip_whitespace(s, i)
    IN  IF j > Len(s) THEN <<>>
        ELSE IF s[j] \in {"[", "]", "{", "}", ":", ","}
        THEN <<Token(s[j], <<>>)>> \o tokens(s, j + 1)
        ELSE IF s[j] = "\""
        THEN LET e == string_end(s, j)
                 str == parse_str(SubSeq(s, j + 1, e - 1))
             IN  IF e = 0 \/ ~str.ok THEN <<Token("err", <<>>)>>
                 ELSE <<Token("str", str.val)>> \o tokens(s, e + 1)
        ELSE IF is_digit(s[j])
        THEN LET e == digits_end(s, j)
             IN  IF s[j] = "0" /\ e > j THEN <<Token("err", <<>>)>>
                 ELSE <<Token("num", SubSeq(s, j, e))>> \o tokens(s, e + 1)
        ELSE IF starts_with_at(s, j, <<"n", "u", "l", "l">>)
        THEN <<Token("null", <<>>)>> \o tokens(s, j + 4)
        ELSE <<Token("err", <<>>)>>

\* The kind of the token at position i, end past the last token
kind_at(ts, i) == IF i <= Len(ts) THEN ts[i].t ELSE "end"

Parse_err == [ok |-> FALSE, val |-> <<>>, next |-> 0]
Parse_ok(val, next) == [ok |-> TRUE, val |-> val, next |-> next]

\* str::parse for usize on a run of digits
RECURSIVE from_decimal(_)
from_decimal(d) ==
    IF d = <<>> THEN 0
    ELSE 10 * from_decimal(SubSeq(d, 1, Len(d) - 1)) + (Code(d[Len(d)]) - 48)

\* Deserialize for HashMap<String, String>: the members after position i,
\* a later member replacing an earlier one of the same key
RECURSIVE parse_fields_members(_, _, _)
parse_fields_members(ts, i, pairs) ==
    IF kind_at(ts, i) = "str" /\ kind_at(ts, i + 1) = ":"
       /\ kind_at(ts, i + 2) = "str"
    THEN LET more == Append(pairs, <<ts[i].v, ts[i + 2].v>>)
         IN  IF kind_at(ts, i + 3) = ","
             THEN parse_fields_members(ts, i + 4, more)
             ELSE IF kind_at(ts, i + 3) = "}"
             THEN Parse_ok(field_map_of(more), i + 4)
             ELSE Parse_err
    ELSE Parse_err

parse_fields(ts, i) ==
    IF kind_at(ts, i) # "{" THEN Parse_err
    ELSE IF kind_at(ts, i + 1) = "}" THEN Parse_ok(field_map_of(<<>>), i + 2)
    ELSE parse_fields_members(ts, i + 1, <<>>)

\* Deserialize for Option<RecordType>
parse_record_type(ts, i) ==
    IF kind_at(ts, i) = "null" THEN Parse_ok(NoType, i + 1)
    ELSE IF kind_at(ts, i) = "str"
    THEN IF ts[i].v = <<"P", "e", "r", "s", "o", "n">>
         THEN Parse_ok(Person, i + 1)
         ELSE IF ts[i].v = <<"M", "a", "c", "h", "i", "n", "e">>
         THEN Parse_ok(Machine, i + 1)
         ELSE Parse_err
    ELSE IF /\ kind_at(ts, i) = "{" /\ kind_at(ts, i + 1) = "str"
            /\ ts[i + 1].v = <<"O", "t", "h", "e", "r">>
            /\ kind_at(ts, i + 2) = ":" /\ kind_at(ts, i + 3) = "str"
            /\ kind_at(ts, i + 4) = "}"
    THEN Parse_ok(Other(ts[i + 3].v), i + 5)
    ELSE Parse_err

\* Deserialize for Record: the members after position i.  Each of id,
\* record_type and fields comes at most once, id and fields must come,
\* record_type is None when it does not
RECURSIVE parse_record_members(_, _, _)
parse_record_members(ts, i, got) ==
    IF kind_at(ts, i) = "str" /\ kind_at(ts, i + 1) = ":"
       /\ ts[i].v \notin DOMAIN got
    THEN LET key == ts[i].v
             value ==
                 IF key = <<"i", "d">>
                 THEN IF kind_at(ts, i + 2) = "num"
                      THEN Parse_ok(from_decimal(ts[i + 2].v), i + 3)
                      ELSE Parse_err
                 ELSE IF key = <<"r", "e", "c", "o", "r", "d", "_", "t", "y", "p", "e">>
                 THEN parse_record_type(ts, i + 2)
                 ELSE IF key = <<"f", "i", "e", "l", "d", "s">>
                 THEN parse_fields(ts, i + 2)
                 ELSE Parse_err
             more == [k \in DOMAIN got \cup {key} |->
                         IF k = key THEN value.val ELSE got[k]]
         IN  IF ~value.ok THEN Parse_err
             ELSE IF kind_at(ts, value.next) = ","
             THEN parse_record_members(ts, value.next + 1, more)
             ELSE IF /\ kind_at(ts, value.next) = "}"
                     /\ <<"i", "d">> \in DOMAIN more
                     /\ <<"f", "i", "e", "l", "d", "s">> \in DOMAIN more
             THEN Parse_ok(
                      [id |-> more[<<"i", "d">>],
                       record_type |->
                           IF <<"r", "e", "c", "o", "r", "d", "_", "t", "y", "p", "e">> \in DOMAIN more
                           THEN more[<<"r", "e", "c", "o", "r", "d", "_", "t", "y", "p", "e">>]
                           ELSE NoType,
                       fields |-> more[<<"f", "i", "e", "l", "d", "s">>]],
                      value.next + 1)
             ELSE Parse_err
    ELSE Parse_err

parse_record(ts, i) ==
    IF kind_at(ts, i) = "{"
    THEN parse_record_members(ts, i + 1, field_map_of(<<>>))
    ELSE Parse_err

\* Deserialize for Vec<Record>: the elements after position i
RECURSIVE parse_vec_elements(_, _, _)
parse_vec_elements(ts, i, records) ==
    LET record == parse_record(ts, i)
    IN  IF ~record.ok THEN Parse_err
        ELSE IF kind_at(ts, record.next) = ","
        THEN parse_vec_elements(ts, record.next + 1,
                                Append(records, record.val))
        ELSE IF kind_at(ts, record.next) = "]"
        THEN Parse_ok(Append(records, record.val), record.next + 1)
        ELSE Parse_err

\* serde_json::from_str::<Vec<Record>>: the whole text is one array of
\* records, with nothing but whitespace after it
from_str(data) ==
    LET ts == tokens(data, 1)
        vec == IF kind_at(ts, 1) # "[" THEN Parse_err
               ELSE IF kind_at(ts, 2) = "]" THEN Parse_ok(<<>>, 3)
               ELSE parse_vec_elements(ts, 2, <<>>)
    IN  IF vec.ok /\ vec.next = Len(ts) + 1
        THEN [ok |-> TRUE, val |-> vec.val]
        ELSE [ok |-> FALSE, val |-> <<>>]

\* FileStorage::new: a store over the path, filled by load_from_disk.
\* A path that does not exist, an empty file and a text that does not
\* parse all leave the store empty; the file is only read
FileStorage_new(file) ==
    IF ~file.exists \/ file.data = <<>> THEN MemoryStorage_new
    ELSE LET records == from_str(file.data)
         IN  IF records.ok THEN load_from_disk(records.val)
             ELSE MemoryStorage_new

\* What becomes of a write of the data file
WriteOutcomes == {"written", "create_failed", "write_failed"}

\* A write that adds the text to the end of the file it finds
persist_to_disk_append(st, file, outcome) ==
    {[exists |-> TRUE, data |-> file.data \o t] :
        t \in to_string_pretty(st.records)}

\* A write of the newest record alone in the place of the record list
persist_to_disk_newest(st, file, outcome) ==
    IF outcome = "create_failed" THEN {file}
    ELSE IF outcome = "write_failed" THEN {[exists |-> TRUE, data |-> <<>>]}
    ELSE {[exists |-> TRUE, data |-> t] :
             t \in to_string_pretty(SubSeq(st.records, Len(st.records),
                                           Len(st.records)))}

\* FileStorage::persist_to_disk: the data file after it.  File::create
\* fails and the file stays as it was, or it empties the file and
\* write_all writes the text, or write_all fails and leaves the beginning
\* of the text (none of it, or the first half)
persist_to_disk(st, file, outcome) ==
    IF outcome = "create_failed" THEN {file}
    ELSE IF outcome = "write_failed"
    THEN {[exists |-> TRUE, data |-> SubSeq(t, 1, n)] :
             t \in to_string_pretty(st.records), n \in {0}} \cup
         {[exists |-> TRUE, data |-> SubSeq(t, 1, Len(t) \div 2)] :
             t \in to_string_pretty(st.records)}
    ELSE {[exists |-> TRUE, data |-> t] : t \in to_string_pretty(st.records)}

\* The data file as an earlier run wrote it for a record list: no file
\* before the first add, one of the texts of the list after it
written_file(records) ==
    IF records = <<>> THEN File_none
    ELSE CHOOSE f \in persist_to_disk([records |-> records,
                                       next_id |-> Len(records) + 1],
                                      File_none, "written") : TRUE

\* The request lines of the querying client
QueryLines == 27..36

InitQuery ==
    /\ middleware_chain = <<LoggingMiddleware, SecurityTierMiddleware(Open),
                            ReadOnlyMiddleware(ReadOnlyIds)>>
    /\ storage \in {load_from_disk(r) : r \in persisted(MaxLoaded)}
    /\ pc = [s \in Sessions |-> "idle"]
    /\ context = [s \in Sessions |-> ClientContext_default]
    /\ challenge_hex = [s \in Sessions |-> <<>>]
    /\ ev = Event(0, 0, "init", "", <<>>, <<>>, <<>>)
    /\ backend = "File"
    /\ lock = RwLock_new
    /\ task = [s \in Sessions |-> Task_idle]
    /\ loaded = Len(storage.records)
    /\ acked = 0
    /\ disk = written_file(storage.records)
    /\ call = Call_none
    /\ client = Client_none

NextQuery ==
    \/ Accept(1)
    \/ EndOfInput(1)
    \/ \E i \in QueryLines : Dispatched(1, i)

SpecQuery == InitQuery /\ [][NextQuery]_vars

(***************************************************************************)
(* The sessions between their suspension points.  main.rs spawns one task  *)
(* for every connection and hands each a clone of the Arc of the store, a  *)
(* std::sync::RwLock over a MemoryStorage, a FileStorage or a LdapStorage.  *)
(* A step below runs one task from one await or lock call to the next.     *)
(***************************************************************************)
\* The adds the sessions make in all, at most
MaxAdds == 2

\* The request lines of these sessions: auth with the admin key over the
\* first challenge, add name=x, quit and query
TaskLines == {4, 12, 24, 31}

\* The field map of the records the earlier run added: name=Jane Doe
LoadedFields ==
    field_map_of(<<<<<<"n", "a", "m", "e">>, <<"J", "a", "n", "e", " ", "D", "o", "e">>>>>>)

\* ldap.search and the loop over its entries: the record lists a directory
\* can answer with, none when the connection, the bind or the search fails
LdapEntries ==
    {<<>>,
     <<[id |-> 1, record_type |-> Person,
        fields |-> field_map_of(<<
            <<<<"c", "n">>, <<"x">>>>,
            <<<<"o", "b", "j", "e", "c", "t", "C", "l", "a", "s", "s">>,
              <<"i", "n", "e", "t", "O", "r", "g", "P", "e", "r", "s", "o", "n">>>> >>)]>>}

\* A lock call that hands out its guard on a poisoned lock as well
lock_result_poison_ignored(l) == "Ok"

\* What storage.write() and storage.read() return once they have the lock:
\* Err(PoisonError) on a lock a writer poisoned, the guard otherwise
lock_result(l) == IF l.poisoned THEN "Err" ELSE "Ok"

\* RwLock::write returns once no guard is out
write_available(l) == l.readers = {} /\ l.writer = 0

\* A read lock handed out whatever guards are out
read_available_beside_writer(l) == TRUE

\* RwLock::read returns once no write guard is out
read_available(l) == l.writer = 0

\* The loop reads its next line with the response to the last one still
\* being written
may_read_while_writing(t) == t.at \in {"read_line", "write_all"}

\* The loop is at reader.read_line
may_read(t) == t.at = "read_line"

\* records.push(Record { id: self.next_id, .. }) of add_record
add_record_push(st, fields) ==
    [st EXCEPT !.records = add_record(st, fields).records]

\* add_record leaving next_id as it was
add_record_next_id_kept(st) == st

\* self.next_id += 1 of add_record
add_record_next_id(st) == [st EXCEPT !.next_id = @ + 1]

\* The buffers the rows of one record are written from, one write_all each
row_writes(record, index, keys) ==
    [k \in 1..Len(keys) |-> record_rows(record, index, <<keys[k]>>)]

RECURSIVE all_row_writes(_, _, _, _)
all_row_writes(records, i, returns, iters) ==
    IF i > Len(records) THEN <<>>
    ELSE row_writes(records[i], i, row_keys(records[i], returns, iters[i]))
         \o all_row_writes(records, i + 1, returns, iters)

\* The buffers the query arm hands to write_all for a result, in order; one
\* list for every order in which the field maps can be iterated
query_writes(records, returns) ==
    IF records = <<>> THEN {<<r_501>>}
    ELSE {<<r_102_prefix \o to_decimal(Len(records)) \o r_102_suffix>>
          \o all_row_writes(records, 1, returns, iters) \o <<r_ok>> :
             iters \in keys_iterations(records)}

\* The task is in the Command::Add arm, past the authenticated check
in_add(t) ==
    /\ t.line # 0
    /\ Parsed[t.line].ok
    /\ Parsed[t.line].cmd.kind = "Add"
    /\ t.writes = <<r_ok>>

\* The adds begun: those answered and those under way
adds_begun == acked + Cardinality({s \in Sessions : in_add(task[s])})

\* The task of a session after it read line i: the context it holds and
\* the point it runs to
after_read_line(s, i) ==
    IF ~Parsed[i].ok
    THEN {[context |-> context[s],
           task |-> [at |-> "write_all", line |-> i,
                     writes |-> <<parse_error_response(Parsed[i].err)>>,
                     sent |-> 0, post |-> FALSE, close |-> FALSE]]}
    ELSE LET command == Parsed[i].cmd
             pre == MiddlewareChain_pre_process(middleware_chain, command,
                                                context[s])
         IN  IF pre.result.action = "ShortCircuit"
             THEN {[context |-> pre.context,
                    task |-> [at |-> "write_all", line |-> i,
                              writes |-> <<pre.result.response>>,
                              sent |-> 0, post |-> FALSE, close |-> FALSE]]}
             ELSE IF command.kind = "Add" /\ pre.context.authenticated
             THEN {[context |-> pre.context,
                    task |-> [at |-> "lock_write", line |-> i,
                              writes |-> <<r_ok>>,
                              sent |-> 0, post |-> TRUE, close |-> FALSE]]}
             ELSE IF command.kind = "Query"
             THEN {[context |-> pre.context,
                    task |-> [at |-> "lock_read", line |-> i,
                              writes |-> <<>>,
                              sent |-> 0, post |-> TRUE, close |-> FALSE]]}
             ELSE {[context |-> out.context,
                    task |-> [at |-> "write_all", line |-> i,
                              writes |-> <<out.response>>,
                              sent |-> 0, post |-> out.post,
                              close |-> out.close]] :
                      out \in dispatch(command, pre.context, challenge_hex[s],
                                       storage)}

InitTasks ==
    /\ middleware_chain = <<LoggingMiddleware, SecurityTierMiddleware(Open),
                            ReadOnlyMiddleware(ReadOnlyIds)>>
    /\ backend \in {"Memory", "File", "Ldap"}
    /\ storage \in IF backend = "File"
                   THEN {load_from_disk(r) :
                            r \in {q \in persisted(MaxLoaded) :
                                      \A k \in 1..Len(q) :
                                          q[k].fields = LoadedFields}}
                   ELSE {MemoryStorage_new}
    /\ disk = written_file(storage.records)
    /\ pc = [s \in Sessions |-> "idle"]
    /\ context = [s \in Sessions |-> ClientContext_default]
    /\ challenge_hex = [s \in Sessions |-> <<>>]
    /\ ev = Event(0, 0, "init", "", <<>>, <<>>, <<>>)
    /\ lock = RwLock_new
    /\ task = [s \in Sessions |-> Task_idle]
    /\ loaded = Len(storage.records)
    /\ acked = 0
    /\ call = Call_none
    /\ client = Client_none

\* A connection is accepted and its task spawned: the context and the
\* challenge are created and the banner is written
TaskAccept(s) ==
    /\ pc[s] = "idle"
    /\ challenge_hex' = [challenge_hex EXCEPT ![s] = challenge_a]
    /\ context' = [context EXCEPT ![s] = ClientContext_default]
    /\ pc' = [pc EXCEPT ![s] = "open"]
    /\ task' = [task EXCEPT ![s] = Task_idle]
    /\ ev' = Event(s, 0, "accept", "", <<>>, <<>>, r_ready)
    /\ UNCHANGED <<middleware_chain, storage, backend, lock, loaded, acked, disk>>
    /\ UNCHANGED outside_vars

\* read_line returns 0 bytes: the loop is left and the task ends
TaskEndOfInput(s) ==
    /\ pc[s] = "open"
    /\ may_read(task[s])
    /\ pc' = [pc EXCEPT ![s] = "idle"]
    /\ context' = [context EXCEPT ![s] = ClientContext_default]
    /\ challenge_hex' = [challenge_hex EXCEPT ![s] = <<>>]
    /\ task' = [task EXCEPT ![s] = Task_idle]
    /\ ev' = Event(s, 0, "eof", "", <<>>, <<>>, <<>>)
    /\ UNCHANGED <<middleware_chain, storage, backend, lock, loaded, acked, disk>>
    /\ UNCHANGED outside_vars

\* read_line returns a line: it is parsed, the pre handlers run and the arm
\* of the command runs up to its first lock call or write_all
TaskReadLine(s, i) ==
    /\ pc[s] = "open"
    /\ may_read(task[s])
    /\ Trimmed[i] # <<>>
    /\ \E next \in after_read_line(s, i) :
          /\ next.task.at = "lock_write" => adds_begun < MaxAdds
          /\ context' = [context EXCEPT ![s] = next.context]
          /\ task' = [task EXCEPT ![s] = next.task]
    /\ ev' = Event(s, i, "read_line", "", <<>>, <<>>, <<>>)
    /\ UNCHANGED <<middleware_chain, storage, pc, challenge_hex, backend, lock,
                   loaded, acked, disk>>
    /\ UNCHANGED outside_vars

\* storage.write() returns the write guard
TaskLockWrite(s) ==
    /\ task[s].at = "lock_write"
    /\ write_available(lock)
    /\ lock_result(lock) = "Ok"
    /\ lock' = [lock EXCEPT !.writer = s]
    /\ task' = [task EXCEPT ![s].at = "add_record"]
    /\ ev' = Event(s, task[s].line, "write_lock", "", <<>>, <<>>, <<>>)
    /\ UNCHANGED <<middleware_chain, storage, pc, context, challenge_hex,
                   backend, loaded, acked, disk>>
    /\ UNCHANGED outside_vars

\* lock.add_record up to the push of the record.  LdapStorage::add_record
\* logs an error and returns, and the guard is dropped.
TaskAddRecord(s) ==
    /\ task[s].at = "add_record"
    /\ IF backend = "Ldap"
       THEN /\ lock' = [lock EXCEPT !.writer = 0]
            /\ task' = [task EXCEPT ![s].at = "write_all"]
            /\ UNCHANGED storage
       ELSE /\ storage' = add_record_push(
                              storage, field_map_of(Parsed[task[s].line].cmd.pairs))
            /\ task' = [task EXCEPT ![s].at = "add_next_id"]
            /\ UNCHANGED lock
    /\ ev' = Event(s, task[s].line, "add_record", "", <<>>, <<>>, <<>>)
    /\ UNCHANGED <<middleware_chain, pc, context, challenge_hex, backend,
                   loaded, acked, disk>>
    /\ UNCHANGED outside_vars

\* The rest of add_record: next_id is moved on, FileStorage::add_record
\* then writes the record list to the data file, and the guard is dropped
TaskAddNextId(s) ==
    /\ task[s].at = "add_next_id"
    /\ storage' = add_record_next_id(storage)
    /\ disk' \in IF backend = "File"
                THEN persist_to_disk(storage, disk, "written")
                ELSE {disk}
    /\ lock' = [lock EXCEPT !.writer = 0]
    /\ task' = [task EXCEPT ![s].at = "write_all"]
    /\ ev' = Event(s, task[s].line, "add_next_id", "", <<>>, <<>>, <<>>)
    /\ UNCHANGED <<middleware_chain, pc, context, challenge_hex, backend,
                   loaded, acked>>
    /\ UNCHANGED outside_vars

\* storage.read() returns a read guard
TaskLockRead(s) ==
    /\ task[s].at = "lock_read"
    /\ read_available(lock)
    /\ lock_result(lock) = "Ok"
    /\ lock' = [lock EXCEPT !.readers = @ \cup {s}]
    /\ task' = [task EXCEPT ![s].at = "query"]
    /\ ev' = Event(s, task[s].line, "read_lock", "", <<>>, <<>>, <<>>)
    /\ UNCHANGED <<middleware_chain, storage, pc, context, challenge_hex,
                   backend, loaded, acked, disk>>
    /\ UNCHANGED outside_vars

\* The query step with the read guard kept over the writes of the response
TaskQuery_guard_kept(s) ==
    /\ task[s].at = "query"
    /\ backend # "Ldap"
    /\ \E writes \in query_writes(query(storage,
                                        Parsed[task[s].line].cmd.selections,
                                        default_type_of(context[s])),
                                  Parsed[task[s].line].cmd.returns) :
          task' = [task EXCEPT ![s].at = "write_all", ![s].writes = writes]
    /\ ev' = Event(s, task[s].line, "query", "", <<>>, <<>>, <<>>)
    /\ UNCHANGED <<middleware_chain, storage, pc, context, challenge_hex,
                   backend, lock, loaded, acked, disk>>
    /\ UNCHANGED outside_vars

\* lock.query of MemoryStorage and FileStorage: the result is cloned out of
\* the record list and the guard is dropped
TaskQuery(s) ==
    /\ task[s].at = "query"
    /\ backend # "Ldap"
    /\ \E writes \in query_writes(query(storage,
                                        Parsed[task[s].line].cmd.selections,
                                        default_type_of(context[s])),
                                  Parsed[task[s].line].cmd.returns) :
          task' = [task EXCEPT ![s].at = "write_all", ![s].writes = writes]
    /\ lock' = [lock EXCEPT !.readers = @ \ {s}]
    /\ ev' = Event(s, task[s].line, "query", "", <<>>, <<>>, <<>>)
    /\ UNCHANGED <<middleware_chain, storage, pc, context, challenge_hex,
                   backend, loaded, acked, disk>>
    /\ UNCHANGED outside_vars

\* lock.query of LdapStorage: the task calls into the directory and waits
\* for its answer inside the call, the read guard in hand
TaskLdapSearch(s) ==
    /\ task[s].at = "query"
    /\ backend = "Ldap"
    /\ task' = [task EXCEPT ![s].at = "ldap_search"]
    /\ ev' = Event(s, task[s].line, "ldap_search", "", <<>>, <<>>, <<>>)
    /\ UNCHANGED <<middleware_chain, storage, pc, context, challenge_hex,
                   backend, lock, loaded, acked, disk>>
    /\ UNCHANGED outside_vars

\* The directory answers, if it ever does: the records are built from the
\* entries and the guard is dropped
TaskLdapAnswer(s) ==
    /\ task[s].at = "ldap_search"
    /\ \E records \in LdapEntries :
       \E writes \in query_writes(records, Parsed[task[s].line].cmd.returns) :
          task' = [task EXCEPT ![s].at = "write_all", ![s].writes = writes]
    /\ lock' = [lock EXCEPT !.readers = @ \ {s}]
    /\ ev' = Event(s, task[s].line, "ldap_answer", "", <<>>, <<>>, <<>>)
    /\ UNCHANGED <<middleware_chain, storage, pc, context, challenge_hex,
                   backend, loaded, acked, disk>>
    /\ UNCHANGED outside_vars

\* One writer.write_all(..).await of the response.  After the last one the
\* post handlers run where the arm reaches them, and the loop goes back to
\* read_line or is left.
TaskWriteAll(s) ==
    /\ task[s].at = "write_all"
    /\ LET t == task[s]
           last == t.sent + 1 = Len(t.writes)
           leave == last /\ t.close
       IN  /\ task' = [task EXCEPT ![s] =
                          IF last THEN Task_idle ELSE [t EXCEPT !.sent = @ + 1]]
           /\ pc' = [pc EXCEPT ![s] = IF leave THEN "idle" ELSE @]
           /\ context' = [context EXCEPT ![s] =
                             IF leave THEN ClientContext_default ELSE @]
           /\ challenge_hex' = [challenge_hex EXCEPT ![s] =
                                   IF leave THEN <<>> ELSE @]
           /\ acked' = IF in_add(t) THEN acked + 1 ELSE acked
           /\ ev' = Event(s, t.line, "write_all", "", <<>>,
                          IF last /\ t.post
                          THEN MiddlewareChain_post_process(middleware_chain)
                          ELSE <<>>,
                          t.writes[t.sent + 1])
    /\ UNCHANGED <<middleware_chain, storage, backend, lock, loaded, disk>>
    /\ UNCHANGED outside_vars

NextTasks ==
    \E s \in Sessions :
        \/ TaskAccept(s)
        \/ TaskEndOfInput(s)
        \/ \E i \in TaskLines : TaskReadLine(s, i)
        \/ TaskLockWrite(s)
        \/ TaskAddRecord(s)
        \/ TaskAddNextId(s)
        \/ TaskLockRead(s)
        \/ TaskQuery(s)
        \/ TaskLdapSearch(s)
        \/ TaskLdapAnswer(s)
        \/ TaskWriteAll(s)

SpecTasks == InitTasks /\ [][NextTasks]_vars

(***************************************************************************)
(* The same sessions with a writer that can panic inside add_record: the   *)
(* write guard is dropped while the task unwinds, which poisons the lock,  *)
(* and the runtime drops the task and its socket.                          *)
(***************************************************************************)
\* A panic inside lock.add_record, before the push or before next_id is
\* moved on
TaskPanic(s) ==
    /\ task[s].at \in {"add_record", "add_next_id"}
    /\ lock.writer = s
    /\ lock' = [lock EXCEPT !.writer = 0, !.poisoned = TRUE]
    /\ task' = [task EXCEPT ![s] = Task_idle]
    /\ pc' = [pc EXCEPT ![s] = "idle"]
    /\ context' = [context EXCEPT ![s] = ClientContext_default]
    /\ challenge_hex' = [challenge_hex EXCEPT ![s] = <<>>]
    /\ ev' = Event(s, task[s].line, "panic", "", <<>>, <<>>, <<>>)
    /\ UNCHANGED <<middleware_chain, storage, backend, loaded, acked, disk>>
    /\ UNCHANGED outside_vars

\* storage.write() or storage.read() returns Err: map_err and the question
\* mark make handle_connection return the error, the guard inside the
\* error is dropped and the socket with the task
TaskLockPoisoned(s) ==
    /\ \/ task[s].at = "lock_write" /\ write_available(lock)
       \/ task[s].at = "lock_read" /\ read_available(lock)
    /\ lock_result(lock) = "Err"
    /\ task' = [task EXCEPT ![s] = Task_idle]
    /\ pc' = [pc EXCEPT ![s] = "idle"]
    /\ context' = [context EXCEPT ![s] = ClientContext_default]
    /\ challenge_hex' = [challenge_hex EXCEPT ![s] = <<>>]
    /\ ev' = Event(s, task[s].line, "lock_poisoned", "", <<>>, <<>>, <<>>)
    /\ UNCHANGED <<middleware_chain, storage, backend, lock, loaded, acked, disk>>
    /\ UNCHANGED outside_vars

NextPoison ==
    \/ NextTasks
    \/ \E s \in Sessions :
          \/ TaskPanic(s)
          \/ TaskLockPoisoned(s)

SpecPoison == InitTasks /\ [][NextPoison]_vars

(***************************************************************************)
(* The functions of the program called on their own, on arguments drawn    *)
(* from small sets: call holds the function, its arguments and its result. *)
(***************************************************************************)
\* The selection lists query is called with
CallSelections ==
    {<<>>,
     <<<<None, <<"j", "*">>>>, <<Some(<<"e", "m", "a", "i", "l">>), <<"j", "o", "h", "n", "@", "e", "x", "a", "m", "p", "l", "e", ".", "c", "o", "m">>>>>>,
     <<<<Some(<<"n", "a", "m", "e">>), <<"j", "o", "h", "n">>>>>>,
     <<<<Some(<<"n", "a", "m", "e">>), <<"j", "o", "h", "n">>>>, <<Some(<<"e", "m", "a", "i", "l">>), <<"j", "o", "h", "n", "@", "e", "x", "a", "m", "p", "l", "e", ".", "c", "o", "m">>>>>>,
     <<<<Some(<<"n", "a", "m", "e">>), <<"j", "o", "h", "n">>>>, <<Some(<<"e", "m", "a", "i", "l">>), <<"j", "a", "n", "e", "@", "e", "x", "a", "m", "p", "l", "e", ".", "c", "o", "m">>>>>>,
     <<<<None, <<"j", "o", "h", "n">>>>>>,
     <<<<None, <<"m", "a", "c", "h", "i", "n", "e">>>>>>,
     <<<<Some(<<"N", "a", "m", "e">>), <<"j", "o", "h", "n">>>>>>,
     <<<<Some(<<"t", "y", "p", "e">>), <<"p", "e", "r", "s", "o", "n">>>>>>,
     <<<<Some(<<"n", "a", "m", "e">>), <<"s", "e", "r", "v", "e", "r">>>>, <<Some(<<"t", "y", "p", "e">>), <<"m", "a", "c", "h", "i", "n", "e">>>>>>,
     <<<<Some(<<"p", "h", "o", "n", "e">>), <<"x">>>>>>,
     <<<<None, <<"j", "a", "n", "e">>>>, <<Some(<<"n", "a", "m", "e">>), <<"d", "o", "e">>>>>>,
     <<<<None, <<"l", "a", "s", "e", "r">>>>, <<None, <<"p", "r", "i", "n", "t", "e", "r">>>>>>,
     <<<<None, <<"d", "o", "e", " ", "p", "e", "r", "s", "o", "n">>>>>>}

\* The default types query is called with
CallDefaultTypes == {NoType, Person, Machine}

InitCalls ==
    /\ middleware_chain = <<LoggingMiddleware, SecurityTierMiddleware(Open),
                            ReadOnlyMiddleware(ReadOnlyIds)>>
    /\ storage = MemoryStorage_new
    /\ pc = [s \in Sessions |-> "idle"]
    /\ context = [s \in Sessions |-> ClientContext_default]
    /\ challenge_hex = [s \in Sessions |-> <<>>]
    /\ ev = Event(0, 0, "init", "", <<>>, <<>>, <<>>)
    /\ backend = "Memory"
    /\ lock = RwLock_new
    /\ task = [s \in Sessions |-> Task_idle]
    /\ loaded = 0
    /\ acked = 0
    /\ disk = File_none
    /\ call = Call_none
    /\ client = Client_none

\* The field values and the query values matches is called with
CallFieldValues ==
    {<<"J", "o", "h", "n", " ", "D", "o", "e">>,
     <<"j", "o", "h", "n", "@", "e", "x", "a", "m", "p", "l", "e", ".", "c", "o", "m">>,
     <<"D", "o", "e", ",", " ", "J", "o", "h", "n">>,
     <<"a", ";", "b", ":", "c">>,
     <<>>,
     <<"S", "e", "r", "v", "e", "r", " ", " ", "M", "a", "c", "h", "i", "n", "e">>,
     <<"J", "O", "H", "N">>,
     <<"J", "o", "h", "n", "n", "y">>}

CallQueryValues ==
    {<<"j", "o", "h", "n">>,
     <<"J", "O", "H", "N">>,
     <<"d", "o", "e", " ", "j", "o", "h", "n">>,
     <<"J", "o", "h", "n", " ", "D", "O", "E">>,
     <<"J", "o", "*">>,
     <<"*">>,
     <<>>,
     <<"j", "?", "h", "n">>,
     <<"d", "o", "e", ",", "j", "o", "h", "n">>,
     <<" ", "j", "o", "h", "n", " ">>,
     <<"b", " ", "a">>,
     <<"J", "o", "h", "n", " ", "S", "m", "i", "t", "h">>,
     <<"c", " ", "a", " ", "b">>,
     <<"*", "h", "n">>,
     <<"J", "O", "H", "N", "*">>}

\* The field words and the query words with a wildcard character that
\* wildcard_match is called with
CallWords ==
    {<<"j", "o", "h", "n">>,
     <<"J", "o", "h", "n">>,
     <<"j", "o">>,
     <<"j">>,
     <<>>,
     <<"j", "o", "h", "n", "n", "y">>,
     <<"j", "?", "h", "n">>,
     <<"j", "o", "*">>,
     <<"J", "+">>,
     <<"j", "o", "*", "n">>,
     <<"J", "O", "H", "N">>}

CallPatterns ==
    {<<"j", "o", "*">>,
     <<"J", "o", "*">>,
     <<"*">>,
     <<"j", "?", "h", "n">>,
     <<"j", "+">>,
     <<"j", "o", "*", "n">>,
     <<"*", "h", "n">>,
     <<"j", "*", "n", "*">>,
     <<"J", "O", "H", "N", "*">>,
     <<"?">>,
     <<"j", "o", "*", "*">>}

\* The variables of the server and the client, which a call leaves alone
server_vars ==
    <<middleware_chain, storage, pc, context, challenge_hex, ev, backend,
      lock, task, loaded, acked, disk, client>>

\* MemoryStorage::query on a store an earlier run filled
CallQuery ==
    /\ call = Call_none
    /\ \E r \in persisted(MaxLoaded), selections \in CallSelections,
          default_type \in CallDefaultTypes :
          call' = [fn |-> "query",
                   args |-> <<load_from_disk(r), selections, default_type>>,
                   result |-> query(load_from_disk(r), selections, default_type)]
    /\ UNCHANGED server_vars

\* MemoryStorage::matches
CallMatches ==
    /\ call = Call_none
    /\ \E field_val \in CallFieldValues, query_val \in CallQueryValues :
          call' = [fn |-> "matches", args |-> <<field_val, query_val>>,
                   result |-> matches(field_val, query_val)]
    /\ UNCHANGED server_vars

\* MemoryStorage::wildcard_match, as matches calls it: on a word of the
\* field value and a word of the query value, both in lower case
CallWildcardMatch ==
    /\ call = Call_none
    /\ \E word \in CallWords, pattern \in CallPatterns :
          call' = [fn |-> "wildcard_match", args |-> <<word, pattern>>,
                   result |-> wildcard_match(to_lowercase(word),
                                             to_lowercase(pattern))]
    /\ UNCHANGED server_vars

NextCalls ==
    \/ CallQuery
    \/ CallMatches
    \/ CallWildcardMatch

SpecCalls == InitCalls /\ [][NextCalls]_vars

(***************************************************************************)
(* The sessions on the commands that end a session and on the commands     *)
(* that are parsed and not yet implemented.                                *)
(***************************************************************************)
\* The lines of these sessions.  Session 1 sends id Guest, a good auth,
\* delete, change, siteinfo, bogus, quit, a blank and an empty line, exit,
\* STOP, set, login, logout, answer, clear, email, xlogin, fields, help,
\* Delete and change without make; the other sessions a good auth and quit.
ArmLinesOf(s) ==
    IF s = 1 THEN {2, 4, 18, 19, 20, 22, 24, 25, 26} \cup (37..49)
    ELSE {4, 24}

NextArms ==
    \E s \in Sessions :
        \/ Accept(s)
        \/ EndOfInput(s)
        \/ \E i \in ArmLinesOf(s) :
              \/ EmptyLine(s, i)
              \/ ParseError(s, i)
              \/ ShortCircuited(s, i)
              \/ Dispatched(s, i)

SpecArms == Init /\ [][NextArms]_vars

(***************************************************************************)
(* A file-backed store on its own: adds that write the data file, and new  *)
(* stores constructed from the same path.                                  *)
(***************************************************************************)
\* The records a file-backed store holds here, at most
MaxFileRecords == 2

\* The field maps added to the file-backed store: a value with a quote, a
\* backslash and a line feed beside a type, a type of its own, a plain name
FileFields ==
    {field_map_of(p) : p \in {
        <<<<<<"n", "a", "m", "e">>, <<"a", "\"", "b", "\\", "\n">>>>, <<<<"t", "y", "p", "e">>, <<"p", "e", "r", "s", "o", "n">>>>>>,
        <<<<<<"t", "y", "p", "e">>, <<"P", "r", "i", "n", "t", "e", "r">>>>>>,
        <<<<<<"n", "a", "m", "e">>, <<"x">>>>>> }}

\* Texts that are not a JSON array of records
CorruptTexts ==
    {<<"n", "o", "t", " ", "j", "s", "o", "n">>,
     <<"{", "}">>,
     <<" ">>,
     <<"[", "{", "\"", "i", "d", "\"", ":", " ", "1", "}", "]">>,
     <<"[", "1", "]">>}

\* The path when the first store is constructed: no file, an empty file or
\* a corrupt one
InitFile ==
    /\ middleware_chain = <<LoggingMiddleware, SecurityTierMiddleware(Open),
                            ReadOnlyMiddleware(ReadOnlyIds)>>
    /\ disk \in {File_none, [exists |-> TRUE, data |-> <<>>]}
                \cup {[exists |-> TRUE, data |-> t] : t \in CorruptTexts}
    /\ storage = FileStorage_new(disk)
    /\ pc = [s \in Sessions |-> "idle"]
    /\ context = [s \in Sessions |-> ClientContext_default]
    /\ challenge_hex = [s \in Sessions |-> <<>>]
    /\ ev = Event(0, 0, "new", "", <<>>, <<>>, <<>>)
    /\ backend = "File"
    /\ lock = RwLock_new
    /\ task = [s \in Sessions |-> Task_idle]
    /\ loaded = Len(storage.records)
    /\ acked = 0
    /\ call = [fn |-> "FileStorage_new", args |-> <<disk>>, result |-> storage]
    /\ client = Client_none

\* The variables a store on its own leaves alone
file_rest ==
    <<middleware_chain, pc, context, challenge_hex, backend, lock, task,
      acked, client>>

\* FileStorage::add_record: MemoryStorage::add_record, then persist_to_disk
\* whatever becomes of the write.  The event lists the field maps added
\* since the store was constructed
FileAddRecord ==
    /\ Len(storage.records) < MaxFileRecords
    /\ \E fields \in FileFields, outcome \in WriteOutcomes :
          /\ storage' = add_record(storage, fields)
          /\ disk' \in persist_to_disk(storage', disk, outcome)
          /\ ev' = Event(0, 0, "add_record", outcome, Append(ev.pre, fields),
                         <<>>, <<>>)
    /\ UNCHANGED <<file_rest, loaded, call>>

\* The store is dropped and FileStorage::new constructs one from the path.
\* The event keeps what became of the last write
FileNew ==
    /\ storage' = FileStorage_new(disk)
    /\ loaded' = Len(storage'.records)
    /\ call' = [fn |-> "FileStorage_new", args |-> <<disk>>,
                result |-> storage']
    /\ ev' = Event(0, 0, "new", ev.kind, <<>>, <<>>, <<>>)
    /\ UNCHANGED disk
    /\ UNCHANGED file_rest

NextFile ==
    \/ FileAddRecord
    \/ FileNew

SpecFile == InitFile /\ [][NextFile]_vars

(***************************************************************************)
(* pharos-client: the PharosClient.  Its stream is the bytes the server    *)
(* wrote to the connection that the client has not read yet.                *)
(***************************************************************************)
\* enum PharosResponse, and the error a Result carries
PharosResponse_Ok(message) == [kind |-> "Ok", message |-> message]
PharosResponse_Matches(count, records) ==
    [kind |-> "Matches", count |-> count, records |-> records]
PharosResponse_Error(code, message) ==
    [kind |-> "Error", code |-> code, message |-> message]
PharosResponse_AuthenticationRequired(challenge) ==
    [kind |-> "AuthenticationRequired", challenge |-> challenge]
Result_Err(error) == [kind |-> "Err", error |-> error]

\* A read that finds the stream empty while the connection is open waits
Result_Pending == [kind |-> "Pending"]

\* struct PharosRecord and struct PharosField
PharosRecord(id, fields) == [id |-> id, fields |-> fields]
PharosField(key, value) == [key |-> key, value |-> value]

i32_max == <<"2", "1", "4", "7", "4", "8", "3", "6", "4", "7">>

\* str::parse::<i32>(): an optional sign, then decimal digits whose value
\* fits 32 bits (the least i32 itself is left out)
parse_i32(s) ==
    LET signed == s # <<>> /\ s[1] \in {"+", "-"}
        d == IF signed THEN Tail(s) ELSE s
        z == strip_zeros(d)
    IN  IF d # <<>> /\ (\A i \in 1..Len(d) : is_digit(d[i]))
           /\ (Len(z) < 10 \/ (Len(z) = 10 /\ ~str_less(i32_max, z)))
        THEN [ok |-> TRUE,
              val |-> IF signed /\ s[1] = "-" THEN 0 - from_decimal(z)
                      ELSE from_decimal(z)]
        ELSE [ok |-> FALSE, val |-> 0]

\* str::find: the first position where the pattern stands, 0 for none
find(s, pat) ==
    IF contains(s, pat)
    THEN CHOOSE i \in 1..(Len(s) - Len(pat) + 1) :
             /\ SubSeq(s, i, i + Len(pat) - 1) = pat
             /\ \A j \in 1..(i - 1) : SubSeq(s, j, j + Len(pat) - 1) # pat
    ELSE 0

\* str::splitn(n, ":"): at most n pieces, the last one holding the rest
RECURSIVE splitn(_, _)
splitn(n, s) ==
    LET p == find(s, <<":">>)
    IN  IF n <= 1 \/ p = 0 THEN <<s>>
        ELSE <<SubSeq(s, 1, p - 1)>> \o splitn(n - 1, SubSeq(s, p + 1, Len(s)))

kw_challenge == <<"C", "h", "a", "l", "l", "e", "n", "g", "e", ":", " ">>

\* The data arm of parse_response: a row of three pieces starts a record,
\* joins the current one when the id is the same, or closes the current one
\* and starts the next; any other row is passed over
data_row(message, records, current_record) ==
    LET data_parts == splitn(3, message)
        id == IF parse_i32(data_parts[1]).ok
              THEN parse_i32(data_parts[1]).val ELSE 0
        field == PharosField(data_parts[2], trim(data_parts[3]))
    IN  IF Len(data_parts) # 3
        THEN [records |-> records, current_record |-> current_record]
        ELSE IF current_record.some /\ current_record.val.id = id
        THEN [records |-> records,
              current_record |->
                  Some(PharosRecord(id, Append(current_record.val.fields,
                                               field)))]
        ELSE [records |->
                  IF current_record.some
                  THEN Append(records, current_record.val) ELSE records,
              current_record |-> Some(PharosRecord(id, <<field>>))]

\* What parse_response returns when its loop is left by break
after_break(records, current_record, match_count) ==
    LET all == IF current_record.some
               THEN Append(records, current_record.val) ELSE records
    IN  IF match_count > 0 \/ all # <<>>
        THEN PharosResponse_Matches(match_count, all)
        ELSE PharosResponse_Ok(<<"O", "k">>)

\* The 200 arm of parse_response: the current record is pushed, and the
\* message alone is returned
on_200(message, records, current_record, match_count) ==
    PharosResponse_Ok(message)

\* PharosClient::parse_response: the loop over the lines of the stream.
\* eof tells whether the server has closed the connection.  The result is
\* what is returned and the bytes left unread
RECURSIVE parse_response_loop(_, _, _, _, _)
parse_response_loop(stream, eof, records, current_record, match_count) ==
    LET p == find(stream, <<"\n">>)
        line == trim(IF p = 0 THEN stream ELSE SubSeq(stream, 1, p))
        rest == IF p = 0 THEN <<>> ELSE SubSeq(stream, p + 1, Len(stream))
        parts == splitn(2, line)
        code == parse_i32(parts[1])
        message == trim(parts[2])
        returned(resp) == [resp |-> resp, stream |-> rest]
    IN  IF stream = <<>> /\ ~eof
        THEN [resp |-> Result_Pending, stream |-> stream]
        ELSE IF line = <<>>
        THEN returned(after_break(records, current_record, match_count))
        ELSE IF Len(parts) < 2
        THEN parse_response_loop(rest, eof, records, current_record,
                                 match_count)
        ELSE IF ~code.ok
        THEN returned(Result_Err("Invalid response code"))
        ELSE IF code.val = 200
        THEN returned(on_200(message, records, current_record, match_count))
        ELSE IF code.val = 102
        THEN LET words == split_whitespace(message)
                 count == IF Len(words) >= 3 /\ parse_i32(words[3]).ok
                          THEN parse_i32(words[3]).val ELSE 0
             IN  parse_response_loop(rest, eof, records, current_record,
                     IF Len(words) >= 3 THEN count ELSE match_count)
        ELSE IF code.val = 401
        THEN IF contains(message, kw_challenge)
             THEN returned(PharosResponse_AuthenticationRequired(
                      SubSeq(message, find(message, kw_challenge) + 11,
                             Len(message))))
             ELSE returned(PharosResponse_Error(401, message))
        ELSE IF code.val >= 400
        THEN returned(PharosResponse_Error(code.val, message))
        ELSE IF code.val < 0
        THEN LET row == data_row(message, records, current_record)
             IN  parse_response_loop(rest, eof, row.records,
                                     row.current_record, match_count)
        ELSE parse_response_loop(rest, eof, records, current_record,
                                 match_count)

parse_response(stream, eof) ==
    parse_response_loop(stream, eof, <<>>, None, 0)

(***************************************************************************)
(* A PharosClient and the server: the client connects, identifies itself   *)
(* and runs one command through execute_authenticated on session 1.  A     *)
(* line the client sends is an event of its own, and the server answers    *)
(* it in its next step; the client then reads what the server wrote.       *)
(***************************************************************************)
\* The id lines and the command lines of the client
ClientIds == {2, 28}
ClientCommands == {1, 12, 14, 15, 30, 34, 35}

\* The PharosClient before connect: the id line and the command line it
\* will send, the bytes it has not read yet and what it returned
Client_start(id, command) ==
    [at |-> "start", id |-> id, command |-> command, stream |-> <<>>,
     result |-> Result_Pending]

\* send_line: the line is on its way to the server
Sent(i) == Event(1, i, "sent", "", <<>>, <<>>, <<>>)

\* The request line with a given text
line_index(text) == CHOOSE i \in 1..Len(RequestLines) : RequestLines[i] = text

\* BufReader::read_line: the bytes up to the first line feed and the rest
read_line(stream) ==
    LET p == find(stream, <<"\n">>)
    IN  IF p = 0 THEN [line |-> stream, stream |-> <<>>]
        ELSE [line |-> SubSeq(stream, 1, p),
              stream |-> SubSeq(stream, p + 1, Len(stream))]

kw_200 == <<"2", "0", "0">>

InitClient ==
    /\ middleware_chain = <<LoggingMiddleware, SecurityTierMiddleware(Open),
                            ReadOnlyMiddleware(ReadOnlyIds)>>
    /\ storage \in {load_from_disk(r) : r \in persisted(MaxLoaded)}
    /\ pc = [s \in Sessions |-> "idle"]
    /\ context = [s \in Sessions |-> ClientContext_default]
    /\ challenge_hex = [s \in Sessions |-> <<>>]
    /\ ev = Event(0, 0, "init", "", <<>>, <<>>, <<>>)
    /\ backend = "File"
    /\ lock = RwLock_new
    /\ task = [s \in Sessions |-> Task_idle]
    /\ loaded = Len(storage.records)
    /\ acked = 0
    /\ disk = written_file(storage.records)
    /\ call = Call_none
    /\ client \in {Client_start(id, command) :
                      id \in ClientIds, command \in ClientCommands}

\* The variables of the server but the event: the client leaves them alone
client_rest ==
    <<middleware_chain, storage, pc, context, challenge_hex, backend, lock,
      task, loaded, acked, disk, call>>

\* PharosClient::connect after the connection is made: the banner is read
\* and the id line is sent
ClientBanner ==
    /\ client.at = "start"
    /\ ev.outcome = "accept"
    /\ \E got \in {read_line(ev.response)} :
          IF got.line = <<>>
          THEN /\ client' = [client EXCEPT
                                !.at = "done",
                                !.result = Result_Err("Connection closed")]
               /\ UNCHANGED ev
          ELSE /\ client' = [client EXCEPT !.at = "id_sent",
                                           !.stream = got.stream]
               /\ ev' = Sent(client.id)
    /\ UNCHANGED client_rest

\* The rest of connect, and the first send of execute_authenticated: the
\* answer to the id line must start with 200
ClientIdReply ==
    /\ client.at = "id_sent"
    /\ ev.outcome # "sent"
    /\ client.stream \o ev.response # <<>>
    /\ \E got \in {read_line(client.stream \o ev.response)} :
          IF starts_with(trim(got.line), kw_200)
          THEN /\ client' = [client EXCEPT !.at = "exec_sent",
                                           !.stream = got.stream]
               /\ ev' = Sent(client.command)
          ELSE /\ client' = [client EXCEPT
                                !.at = "done", !.stream = got.stream,
                                !.result = Result_Err("Server rejected identification")]
               /\ UNCHANGED ev
    /\ UNCHANGED client_rest

\* execute: parse_response on the answer to the command.  After the first
\* send an AuthenticationRequired is met with sign_challenge and the auth
\* line; after the retry whatever parse_response returns is the result
ClientReply ==
    /\ client.at \in {"exec_sent", "retry_sent"}
    /\ ev.outcome # "sent"
    /\ \E parsed \in {parse_response(client.stream \o ev.response,
                                     pc[1] = "idle")} :
          /\ parsed.resp.kind # "Pending"
          /\ IF client.at = "exec_sent"
                /\ parsed.resp.kind = "AuthenticationRequired"
             THEN \E signed \in sign_challenge(ClientKey,
                                               parsed.resp.challenge) :
                     IF signed.ok
                     THEN /\ client' = [client EXCEPT
                                           !.at = "auth_sent",
                                           !.stream = parsed.stream]
                          /\ ev' = Sent(line_index(auth_line(signed)))
                     ELSE /\ client' = [client EXCEPT
                                           !.at = "done",
                                           !.stream = parsed.stream,
                                           !.result = Result_Err("Failed to sign challenge")]
                          /\ UNCHANGED ev
             ELSE /\ client' = [client EXCEPT !.at = "done",
                                              !.stream = parsed.stream,
                                              !.result = parsed.resp]
                  /\ UNCHANGED ev
    /\ UNCHANGED client_rest

\* execute_authenticated after the auth line: one line is read; when it
\* starts with 200 the command is sent once more, otherwise the client
\* stops with an error
ClientAuthReply ==
    /\ client.at = "auth_sent"
    /\ ev.outcome # "sent"
    /\ client.stream \o ev.response # <<>>
    /\ \E got \in {read_line(client.stream \o ev.response)} :
          IF starts_with(trim(got.line), kw_200)
          THEN /\ client' = [client EXCEPT !.at = "retry_sent",
                                           !.stream = got.stream]
               /\ ev' = Sent(client.command)
          ELSE /\ client' = [client EXCEPT
                                !.at = "done", !.stream = got.stream,
                                !.result = Result_Err("Authentication failed")]
               /\ UNCHANGED ev
    /\ UNCHANGED client_rest

\* The line the client sent last is the one the server reads next
awaited(i) == ev.outcome = "sent" /\ ev.index = i

NextClient ==
    \/ client.at = "start" /\ Accept(1)
    \/ ClientBanner
    \/ ClientIdReply
    \/ ClientReply
    \/ ClientAuthReply
    \/ \E i \in 1..Len(RequestLines) :
          /\ awaited(i)
          /\ \/ ParseError(1, i)
             \/ ShortCircuited(1, i)
             \/ Dispatched(1, i)
    \/ client.at = "done" /\ EndOfInput(1)

SpecClient == InitClient /\ [][NextClient]_vars

(***************************************************************************)
(* The parser called on its own: parse_command on lines made of a first    *)
(* word and a few argument texts, and tokenize on every short text over a  *)
(* small alphabet.                                                         *)
(***************************************************************************)
\* The most argument texts on a line, and the longest text tokenize gets
MaxArgs == 2
MaxTextLen == 4

\* The first words: keywords in both cases, a word that is no keyword and
\* a word that opens a quote
ParseHeads ==
    {<<"s", "t", "a", "t", "u", "s">>,
     <<"i", "d">>,
     <<"a", "u", "t", "h">>,
     <<"l", "o", "g", "i", "n">>,
     <<"x", "l", "o", "g", "i", "n">>,
     <<"a", "d", "d">>,
     <<"A", "d", "d">>,
     <<"q", "u", "e", "r", "y">>,
     <<"c", "h", "a", "n", "g", "e">>,
     <<"d", "e", "l", "e", "t", "e">>,
     <<"h", "e", "l", "p">>,
     <<"q", "u", "i", "t">>,
     <<"b", "o", "g", "u", "s">>,
     <<"\"", "u", "n">>}

\* The argument texts, as they stand on the line
ParseArgs ==
    {<<"a", "=", "b">>,
     <<"a", "=">>,
     <<"a", "=", "b", "=", "c">>,
     <<"a">>,
     <<"m", "a", "k", "e">>,
     <<"r", "e", "t", "u", "r", "n">>,
     <<"5">>,
     <<"+", "7">>,
     <<"4", "2", "9", "4", "9", "6", "7", "2", "9", "6">>,
     <<"-", "1">>,
     <<"\"", "x", " ", "y", "\"">>,
     <<"\"", "u", "n">>,
     <<"n", "a", "t", "i", "v", "e">>,
     <<"k", "=", "\"", "v", " ", "w", "\"">>}

\* The lists of at most n argument texts
RECURSIVE ArgLists(_)
ArgLists(n) ==
    IF n = 0 THEN {<<>>}
    ELSE ArgLists(n - 1)
         \cup {Append(l, a) : l \in {l \in ArgLists(n - 1) : Len(l) = n - 1},
                              a \in ParseArgs}

\* The lines parse_command is called with: the empty line, the blank line
\* and the first words followed by their arguments
ParseLines ==
    {<<>>, <<" ">>} \cup {join(<<h>> \o l) : h \in ParseHeads, l \in ArgLists(MaxArgs)}

\* The characters of the texts tokenize is called with
TextChars == {"a", " ", "\"", "\\", "n"}

\* The texts of at most n characters
RECURSIVE Texts(_)
Texts(n) ==
    IF n = 0 THEN {<<>>}
    ELSE Texts(n - 1)
         \cup {Append(t, c) : t \in {t \in Texts(n - 1) : Len(t) = n - 1},
                              c \in TextChars}

\* parse_command on one line
CallParseCommand ==
    /\ call = Call_none
    /\ \E line \in ParseLines :
          call' = [fn |-> "parse_command", args |-> <<line>>,
                   result |-> parse_command(line)]
    /\ UNCHANGED server_vars

\* tokenize on one text
CallTokenize ==
    /\ call = Call_none
    /\ \E line \in Texts(MaxTextLen) :
          call' = [fn |-> "tokenize", args |-> <<line>>,
                   result |-> tokenize(line)]
    /\ UNCHANGED server_vars

NextParse ==
    \/ CallParseCommand
    \/ CallTokenize

SpecParse == InitCalls /\ [][NextParse]_vars

(***************************************************************************)
(* The server on a file-backed store: one session that authenticates, adds *)
(* and queries, every add writing the data file with any outcome.          *)
(***************************************************************************)
\* The lines of the session: the good auth over either challenge, add
\* name=x, add with an escaped line feed, query, ph x and query name=a
FileServerLines == {4, 5, 12, 13, 15, 17, 31}

InitFileServer ==
    /\ middleware_chain = <<LoggingMiddleware, SecurityTierMiddleware(Open),
                            ReadOnlyMiddleware(ReadOnlyIds)>>
    /\ disk = File_none
    /\ storage = FileStorage_new(disk)
    /\ pc = [s \in Sessions |-> "idle"]
    /\ context = [s \in Sessions |-> ClientContext_default]
    /\ challenge_hex = [s \in Sessions |-> <<>>]
    /\ ev = Event(0, 0, "init", "", <<>>, <<>>, <<>>)
    /\ backend = "File"
    /\ lock = RwLock_new
    /\ task = [s \in Sessions |-> Task_idle]
    /\ loaded = 0
    /\ acked = 0
    /\ call = Call_none
    /\ client = Client_none

\* A command that passes the pre handlers and is dispatched on the
\* file-backed store: FileStorage::add_record adds to the records in memory
\* and then calls persist_to_disk, whose outcome nothing returns to the
\* arm.  call keeps the outcome of the last write.  On the store in memory
\* there is no file to write.
FileDispatched(s, i) ==
    /\ pc[s] = "open"
    /\ Trimmed[i] # <<>>
    /\ Parsed[i].ok
    /\ \E pre \in {MiddlewareChain_pre_process(middleware_chain, Parsed[i].cmd,
                                                context[s])} :
          /\ pre.result.action = "Continue"
          /\ \E out \in dispatch(Parsed[i].cmd, pre.context, challenge_hex[s],
                                  storage) :
                /\ out.storage # storage
                   => record_count(out.storage) <= MaxFileRecords
                /\ context' = [context EXCEPT ![s] =
                                  IF out.close THEN ClientContext_default
                                  ELSE out.context]
                /\ challenge_hex' = [challenge_hex EXCEPT ![s] =
                                        IF out.close THEN <<>> ELSE @]
                /\ storage' = out.storage
                /\ pc' = [pc EXCEPT ![s] = IF out.close THEN "idle" ELSE "open"]
                /\ ev' = Event(s, i, "dispatched",
                               Parsed[i].cmd.kind, pre.ran,
                               IF out.post
                               THEN MiddlewareChain_post_process(middleware_chain)
                               ELSE <<>>,
                               out.response)
                /\ IF out.storage # storage /\ backend = "File"
                   THEN \E outcome \in WriteOutcomes :
                           /\ disk' \in persist_to_disk(out.storage, disk, outcome)
                           /\ call' = [fn |-> "persist_to_disk",
                                       args |-> <<outcome>>, result |-> disk']
                   ELSE UNCHANGED <<disk, call>>
    /\ UNCHANGED <<middleware_chain, backend, lock, task, loaded, acked, client>>

NextFileServer ==
    \/ Accept(1)
    \/ EndOfInput(1)
    \/ \E i \in FileServerLines : FileDispatched(1, i)

SpecFileServer == InitFileServer /\ [][NextFileServer]_vars

(***************************************************************************)
(* Two sessions that authenticate, add records with and without a type     *)
(* field, delete and change, on the store in memory and on the file-backed *)
(* store.                                                                  *)
(***************************************************************************)
\* The lines of these sessions: the good auth over the first challenge,
\* add name=x, delete name=x, change name=x make name=y, add name=x
\* type=PERSON and add type=printer
AppendLines == {4, 12, 18, 19, 52, 53}

InitAppend ==
    /\ middleware_chain = <<LoggingMiddleware, SecurityTierMiddleware(Open),
                            ReadOnlyMiddleware(ReadOnlyIds)>>
    /\ backend \in {"Memory", "File"}
    /\ disk = File_none
    /\ storage = IF backend = "File" THEN FileStorage_new(disk)
                 ELSE MemoryStorage_new
    /\ pc = [s \in Sessions |-> "idle"]
    /\ context = [s \in Sessions |-> ClientContext_default]
    /\ challenge_hex = [s \in Sessions |-> <<>>]
    /\ ev = Event(0, 0, "init", "", <<>>, <<>>, <<>>)
    /\ lock = RwLock_new
    /\ task = [s \in Sessions |-> Task_idle]
    /\ loaded = 0
    /\ acked = 0
    /\ call = Call_none
    /\ client = Client_none

NextAppend ==
    \E s \in Sessions :
        \/ Accept(s)
        \/ EndOfInput(s)
        \/ \E i \in AppendLines : FileDispatched(s, i)

SpecAppend == InitAppend /\ [][NextAppend]_vars

(***************************************************************************)
(* Properties of the session loop.  In an action formula ev' describes the *)
(* step taken and the unprimed variables the state it was taken in.        *)
(***************************************************************************)
\* The session and the command of the step described by an event
cmd_of(e) == Parsed[e.index].cmd

has_role(ctx, role) == \E i \in 1..Len(ctx.roles) : ctx.roles[i] = role

\* The handlers of a given type that ran in the pre chain of an event
pre_entries(e, type) ==
    {j \in 1..Len(e.pre) : middleware_chain[e.pre[j].index].type = type}

tier_of_chain ==
    {middleware_chain[j].default_tier :
        j \in {k \in 1..Len(middleware_chain) :
                  middleware_chain[k].type = "SecurityTier"}}

\* C1: an add received while the session is unauthenticated is answered 401
\* with the session's challenge and leaves the record list unchanged; the
\* store changes, and an add is answered 200:Ok, only for a dispatched add
\* of an authenticated session, which inserts exactly one record.
C1_AddRequiresAuth ==
    [][LET e == ev'
           s == e.session
       IN  /\ (e.outcome = "dispatched" /\ e.kind = "Add"
               /\ ~context[s].authenticated)
              => /\ e.response = r_401_prefix \o challenge_hex[s] \o <<"\n">>
                 /\ storage' = storage
           /\ (storage' # storage \/ (e.kind = "Add" /\ e.response = r_ok))
              => /\ e.outcome = "dispatched" /\ e.kind = "Add"
                 /\ context[s].authenticated
                 /\ e.response = r_ok
                 /\ Len(storage'.records) = Len(storage.records) + 1
                 /\ SubSeq(storage'.records, 1, Len(storage.records))
                       = storage.records]_vars

C1_Witness ==
    /\ ev.outcome = "dispatched" /\ ev.kind = "Add"
    /\ ~context[ev.session].authenticated
    /\ ev.response = r_401_prefix \o challenge_hex[ev.session] \o <<"\n">>
    /\ storage.records = <<>>

\* The presented key is a key of the authorized set and the signature is
\* the signature of that key pair over the challenge c
key_and_signature_hold(command, c) ==
    \E k \in auth_manager.authorized_keys :
        /\ decode_public_key(command.public_key).ok
        /\ decode_public_key(command.public_key).key = k
        /\ command.signature = <<"g", k.key_data>> \o c

\* C2: the authenticated flag of a session becomes true only by the
\* session's own auth command, with an authorized key and a signature over
\* the session's own challenge; any other auth is answered 403:Forbidden
\* and does not change the flag.
C2_AuthOnlyByVerify ==
    [][LET e == ev'
       IN  \A s \in Sessions :
             /\ (context'[s].authenticated /\ ~context[s].authenticated)
                => /\ e.session = s /\ e.outcome = "dispatched" /\ e.kind = "Auth"
                   /\ key_and_signature_hold(cmd_of(e), challenge_hex[s])
                   /\ e.response = r_ok
             /\ (e.session = s /\ e.outcome = "dispatched" /\ e.kind = "Auth"
                 /\ ~key_and_signature_hold(cmd_of(e), challenge_hex[s]))
                => /\ e.response = r_forbidden
                   /\ context'[s].authenticated = context[s].authenticated]_vars

\* An auth whose signature is over the other session's challenge was refused
C2_Witness ==
    /\ ev.outcome = "dispatched" /\ ev.kind = "Auth"
    /\ ev.response = r_forbidden
    /\ ~context[ev.session].authenticated
    /\ \E t \in Sessions \ {ev.session} :
          /\ challenge_hex[t] # challenge_hex[ev.session]
          /\ pc[t] = "open"
          /\ key_and_signature_hold(cmd_of(ev), challenge_hex[t])

r_401_required == <<"4", "0", "1", ":", "A", "u", "t", "h", "e", "n", "t", "i", "c", "a", "t", "i", "o", "n", " ", "r", "e", "q", "u", "i", "r", "e", "d">>

\* C3: the security-tier handler short-circuits with a 401 Authentication
\* required response exactly when its tier is Protected or Scoped, the
\* command is not status, id, auth or quit and the session is not
\* authenticated; in tier Open it never short-circuits, and a query is
\* dispatched and answered 501 or 102.
C3_TierPre ==
    [][LET e == ev'
           s == e.session
       IN  /\ \A j \in pre_entries(e, "SecurityTier") :
                LET tier == middleware_chain[e.pre[j].index].default_tier
                    r == e.pre[j].result
                IN  /\ (/\ r.action = "ShortCircuit"
                        /\ starts_with(r.response, r_401_required))
                       <=> (/\ tier \in {Protected, Scoped}
                            /\ e.kind \notin {"Status", "Id", "Auth", "Quit"}
                            /\ ~context[s].authenticated)
                    /\ tier = Open => r.action = "Continue"
           /\ (tier_of_chain = {Open} /\ e.kind = "Query")
              => /\ e.outcome = "dispatched"
                 /\ \/ e.response = r_501
                    \/ starts_with(e.response, r_102_prefix)]_vars

C3_Witness ==
    /\ ev.outcome = "short_circuit" /\ ev.kind = "Query"
    /\ tier_of_chain = {Protected}
    /\ ev.response = r_401_protected
    /\ ~context[ev.session].authenticated

\* C4: in tier Scoped a write command is dispatched, or changes the store,
\* only for an authenticated session with the admin role; the handler
\* answers an unauthenticated write with the 401 and never the 403, and an
\* authenticated write without the admin role with the 403.
C4_ScopedWrites ==
    [][LET e == ev'
           s == e.session
           write == e.kind \in {"Add", "Delete", "Change"}
       IN  tier_of_chain = {Scoped} =>
             /\ (write /\ e.outcome = "dispatched")
                => context[s].authenticated /\ has_role(context[s], kw_admin)
             /\ storage' # storage
                => context[s].authenticated /\ has_role(context[s], kw_admin)
             /\ \A j \in pre_entries(e, "SecurityTier") :
                  /\ (write /\ ~context[s].authenticated)
                     => e.pre[j].result = ShortCircuit(r_401_scoped)
                  /\ (write /\ context[s].authenticated
                      /\ ~has_role(context[s], kw_admin))
                     => e.pre[j].result = ShortCircuit(r_403_admin)]_vars

C4_Witness ==
    /\ tier_of_chain = {Scoped}
    /\ ev.outcome = "short_circuit" /\ ev.kind = "Add"
    /\ context[ev.session].authenticated
    /\ ~has_role(context[ev.session], kw_admin)
    /\ ev.response = r_403_admin

\* C5: after an auth command that succeeds with key K the role list of the
\* session is Roles(K), and before any successful auth it is empty.
C5_RolesAssigned ==
    /\ (ev.outcome = "dispatched" /\ ev.kind = "Auth" /\ ev.response = r_ok)
       => context[ev.session].roles
            = AuthManager_get_roles(auth_manager, cmd_of(ev).public_key)
    /\ \A s \in Sessions : ~context[s].authenticated => context[s].roles = <<>>

\* C6: the read-only handler short-circuits with the 500 exactly when the
\* command is add, delete or change and the id of the session is in the
\* read-only list, authenticated or not, and the store is then unchanged;
\* with that handler alone in the chain every other command is dispatched.
C6_ReadOnly ==
    [][LET e == ev'
           s == e.session
           listed == context[s].id.some /\ context[s].id.val \in ReadOnlyIds
           blocked == e.kind \in {"Add", "Delete", "Change"} /\ listed
       IN  /\ \A j \in pre_entries(e, "ReadOnly") :
                /\ blocked <=> e.pre[j].result = ShortCircuit(r_500_read_only)
                /\ ~blocked <=> e.pre[j].result = Continue
                /\ blocked => /\ e.outcome = "short_circuit"
                              /\ e.response = r_500_read_only
                              /\ storage' = storage
           /\ (/\ middleware_chain = <<ReadOnlyMiddleware(ReadOnlyIds)>>
               /\ e.outcome \in {"short_circuit", "dispatched"}
               /\ ~blocked)
              => e.outcome = "dispatched"]_vars

\* An authenticated session whose id was folded to a listed id is refused
C6_Witness ==
    /\ ev.outcome = "short_circuit" /\ ev.kind = "Add"
    /\ ev.response = r_500_read_only
    /\ context[ev.session].authenticated
    /\ context[ev.session].id = Some(id_guest)

\* C7: the pre handlers run in chain order; at the first ShortCircuit no
\* later pre handler runs, the command is not dispatched (the store, the id
\* and the authenticated flag are unchanged, no post handler runs), exactly
\* the bytes of the short-circuit are written, and the session stays in
\* its loop.
C7_FirstShortCircuitWins ==
    [][LET e == ev'
           s == e.session
           n == Len(e.pre)
       IN  e.outcome \in {"short_circuit", "dispatched"} =>
             /\ n <= Len(middleware_chain)
             /\ \A j \in 1..n : e.pre[j].index = j
             /\ \A j \in 1..(n - 1) : e.pre[j].result = Continue
             /\ e.outcome = "dispatched"
                => n = Len(middleware_chain)
                   /\ \A j \in 1..n : e.pre[j].result = Continue
             /\ e.outcome = "short_circuit"
                => /\ n >= 1
                   /\ e.pre[n].result.action = "ShortCircuit"
                   /\ e.response = e.pre[n].result.response
                   /\ e.post = <<>>
                   /\ storage' = storage
                   /\ context'[s].id = context[s].id
                   /\ context'[s].authenticated = context[s].authenticated
                   /\ pc'[s] = "open"
                   /\ challenge_hex' = challenge_hex]_vars

\* A short-circuit before the last handler of the chain
C7_Witness ==
    /\ ev.outcome = "short_circuit"
    /\ Len(ev.pre) < Len(middleware_chain)
    /\ ev.response = ev.pre[Len(ev.pre)].result.response

\* C8: for every dispatched command every post handler runs once, in chain
\* order, whatever the response.
C8_PostAlwaysRuns ==
    ev.outcome = "dispatched"
    => ev.post = [j \in 1..Len(middleware_chain) |-> j]

\* C9: a line that fails to parse is answered with exactly one line, chosen
\* by the error kind; no handler runs, the context, the challenge and the
\* store are unchanged and the session stays in its loop.
C9_ParseError ==
    [][LET e == ev'
           s == e.session
           err == Parsed[e.index].err
       IN  e.outcome = "parse_error" =>
             /\ err = UnknownCommand => e.response = r_598_unknown
             /\ err = SyntaxError => e.response = r_599_syntax
             /\ err = InvalidArgument => e.response = r_512
             /\ err \in {UnknownCommand, SyntaxError, InvalidArgument}
             /\ {j \in 1..Len(e.response) : e.response[j] = "\n"}
                  = {Len(e.response)}
             /\ e.pre = <<>> /\ e.post = <<>>
             /\ context' = context /\ challenge_hex' = challenge_hex
             /\ storage' = storage
             /\ pc'[s] = "open"]_vars

C9_Witness ==
    /\ ev.outcome = "parse_error"
    /\ Parsed[ev.index].err = SyntaxError
    /\ ev.response = r_599_syntax
    /\ context[ev.session].authenticated

\* The lines of a response: the pieces that end at each line feed
response_lines(resp) ==
    LET ends == {j \in 1..Len(resp) : resp[j] = "\n"}
        start(j) == IF \E k \in ends : k < j
                    THEN (CHOOSE k \in ends :
                            k < j /\ \A m \in ends : m < j => m <= k) + 1
                    ELSE 1
    IN  [j \in ends |-> SubSeq(resp, start(j), j - 1)]

\* A terminal line: no leading minus sign, and a code of at least 200
\* before the first colon
is_terminal_line(l) ==
    \E p \in 2..Len(l) :
        /\ l[p] = ":"
        /\ \A j \in 1..(p - 1) : is_digit(l[j])
        /\ LET z == strip_zeros(SubSeq(l, 1, p - 1))
           IN  Len(z) > 3 \/ (Len(z) = 3 /\ Code(z[1]) >= Code("2"))

\* C10: every response to a non-empty request line ends with a terminal
\* line, and no earlier line of the response is a terminal line.
C10_OneTerminalLine ==
    ev.outcome \in {"parse_error", "short_circuit", "dispatched"}
    => LET resp == ev.response
           ls == response_lines(resp)
       IN  /\ resp # <<>> /\ resp[Len(resp)] = "\n"
           /\ is_terminal_line(ls[Len(resp)])
           /\ \A j \in DOMAIN ls : j < Len(resp) => ~is_terminal_line(ls[j])

is_hex_digit(c) == \E j \in 1..Len(hex_digits) : hex_digits[j] = c

\* C15: the challenge of a session is fixed at accept, 32 hexadecimal
\* characters, and does not change while the session is open; every 401
\* response that names a challenge carries it; an auth answered
\* 403:Forbidden leaves the challenge and the session as they were; and an
\* auth with an authorized key and a signature over that challenge is
\* answered 200:Ok and authenticates, whatever was refused before.
C15_ChallengeFixed ==
    [][LET e == ev'
           s == e.session
       IN  /\ \A t \in Sessions :
                (pc[t] = "open" /\ pc'[t] = "open")
                => challenge_hex'[t] = challenge_hex[t]
           /\ e.outcome = "accept"
              => /\ Len(challenge_hex'[s]) = 32
                 /\ \A j \in 1..32 : is_hex_digit(challenge_hex'[s][j])
           /\ (e.outcome # "accept" /\ starts_with(e.response, r_401_prefix))
              => e.response = r_401_prefix \o challenge_hex[s] \o <<"\n">>
           /\ (e.kind = "Auth" /\ e.response = r_forbidden)
              => /\ pc'[s] = "open"
                 /\ challenge_hex'[s] = challenge_hex[s]
           /\ (e.kind = "Auth"
               /\ key_and_signature_hold(cmd_of(e), challenge_hex[s]))
              => /\ e.outcome = "dispatched"
                 /\ e.response = r_ok
                 /\ context'[s].authenticated]_vars

\* A refused auth left the session open with the challenge it was given
C15_Witness ==
    /\ ev.outcome = "dispatched" /\ ev.kind = "Auth"
    /\ ev.response = r_forbidden
    /\ pc[ev.session] = "open"
    /\ challenge_hex[ev.session] = challenge_b
    /\ Len(challenge_hex[ev.session]) = 32
    /\ key_and_signature_hold(cmd_of(ev), challenge_a)

(***************************************************************************)
(* Properties of the query arm.  The expected response is stated from the  *)
(* record list: which records match, in which order they are numbered, and *)
(* which of their fields are written.                                      *)
(***************************************************************************)
\* The positions in the record list of the records a query matches
hit_positions(records, selections, T) ==
    {k \in 1..Len(records) : query_accepts(records[k], selections, T)}

\* The j-th smallest position of a set of positions
nth_hit(P, j) == CHOOSE k \in P : Cardinality({m \in P : m < k}) = j - 1

str_leq(a, b) == a = b \/ str_less(a, b)

occurrences(q, x) == Cardinality({i \in 1..Len(q) : q[i] = x})

RECURSIVE flatten(_)
flatten(ss) == IF ss = <<>> THEN <<>> ELSE ss[1] \o flatten(Tail(ss))

\* The ascending arrangement of a list of names, repetitions kept
ascending(entries) ==
    LET names == {entries[i] : i \in 1..Len(entries)}
    IN  CHOOSE q \in [1..Len(entries) -> names] :
            /\ \A a \in 1..(Len(entries) - 1) : str_leq(q[a], q[a + 1])
            /\ \A x \in names : occurrences(q, x) = occurrences(entries, x)

\* The fields of a record in strictly ascending order of their names
fields_ascending(record) ==
    LET D == DOMAIN record.fields
    IN  CHOOSE q \in [1..Cardinality(D) -> D] :
            \A a \in 1..(Cardinality(D) - 1) : str_less(q[a], q[a + 1])

\* The entries of a return clause that name a field of the record
entries_on(record, returns) ==
    SelectSeq(returns, LAMBDA k : k \in DOMAIN record.fields)

row_text(j, f, v) ==
    <<"-", "2", "0", "0", ":">> \o to_decimal(j) \o <<":">> \o f \o <<":", " ">>
    \o v \o <<"\n">>

rows_text(j, record, names) ==
    flatten([x \in 1..Len(names) |-> row_text(j, names[x], record.fields[names[x]])])

header_text(n) ==
    <<"1", "0", "2", ":", "T", "h", "e", "r", "e", " ", "w", "e", "r", "e", " ">> \o to_decimal(n)
    \o <<" ", "m", "a", "t", "c", "h", "e", "s", " ", "t", "o", " ", "y", "o", "u", "r", " ", "r", "e", "q", "u", "e", "s", "t", ".", "\n">>

names_in_play(returns) ==
    UNION {DOMAIN storage.records[k].fields : k \in 1..Len(storage.records)}
    \cup {returns[x] : x \in 1..Len(returns)}

\* The positions at which the lines of a response end, for the lines equal
\* to a given line
line_ends(resp, line) ==
    {p \in DOMAIN response_lines(resp) : response_lines(resp)[p] = line}

\* The rows of a response that carry the index j
rows_of_index(resp, j) ==
    {p \in DOMAIN response_lines(resp) :
        starts_with(response_lines(resp)[p],
                    <<"-", "2", "0", "0", ":">> \o to_decimal(j) \o <<":">>)}

\* The line of the row of field f of a record numbered j
row_line(j, record, f) ==
    LET t == row_text(j, f, record.fields[f]) IN SubSeq(t, 1, Len(t) - 1)

\* The rows of the j-th matching record r are those of the fields counted
\* by expected, and the rows of a lesser field name come first
rows_are(resp, j, r, returns, expected) ==
    /\ \A f \in names_in_play(returns) :
          IF f \in DOMAIN r.fields
          THEN Cardinality(line_ends(resp, row_line(j, r, f))) = expected[f]
          ELSE expected[f] = 0
    /\ \A f, g \in DOMAIN r.fields :
          str_less(f, g)
          => \A p \in line_ends(resp, row_line(j, r, f)),
                q \in line_ends(resp, row_line(j, r, g)) : p < q

\* C17 as stated: with an empty return clause every field of a matching
\* record is written once; with a return clause one row is written for each
\* field that the clause names and the record has, in ascending order of
\* the names, and no row for any other field.
C17_OneRowPerNamedField ==
    (ev.outcome = "dispatched" /\ ev.kind = "Query") =>
        LET cmd == cmd_of(ev)
            recs == storage.records
            P == hit_positions(recs, cmd.selections,
                               default_type_of(context[ev.session]))
        IN  \A j \in 1..Cardinality(P) :
                LET r == recs[nth_hit(P, j)]
                    named(f) == cmd.returns = <<>> \/ occurrences(cmd.returns, f) > 0
                    expected == [f \in names_in_play(cmd.returns) |->
                                    IF f \in DOMAIN r.fields /\ named(f) THEN 1 ELSE 0]
                IN  /\ rows_are(ev.response, j, r, cmd.returns, expected)
                    /\ Cardinality(rows_of_index(ev.response, j))
                          = Cardinality({f \in DOMAIN r.fields : named(f)})

\* C17 amended: with an empty return clause every field of a matching
\* record is written once; with a return clause one row is written for each
\* entry of the clause that names a field the record has (a field named
\* twice is written twice), in ascending order of the names, and no row for
\* any other field.
C17_OneRowPerEntry ==
    (ev.outcome = "dispatched" /\ ev.kind = "Query") =>
        LET cmd == cmd_of(ev)
            recs == storage.records
            P == hit_positions(recs, cmd.selections,
                               default_type_of(context[ev.session]))
        IN  \A j \in 1..Cardinality(P) :
                LET r == recs[nth_hit(P, j)]
                    expected == [f \in names_in_play(cmd.returns) |->
                                    IF f \notin DOMAIN r.fields THEN 0
                                    ELSE IF cmd.returns = <<>> THEN 1
                                    ELSE occurrences(cmd.returns, f)]
                IN  /\ rows_are(ev.response, j, r, cmd.returns, expected)
                    /\ Cardinality(rows_of_index(ev.response, j))
                          = IF cmd.returns = <<>> THEN Cardinality(DOMAIN r.fields)
                            ELSE Len(entries_on(r, cmd.returns))

\* A return clause named a field the record lacks beside one it has
C17_Witness ==
    /\ ev.outcome = "dispatched" /\ ev.kind = "Query"
    /\ Len(storage.records) >= 1
    /\ \E f \in names_in_play(cmd_of(ev).returns) :
          /\ occurrences(cmd_of(ev).returns, f) = 1
          /\ \A k \in 1..Len(storage.records) : f \notin DOMAIN storage.records[k].fields
    /\ Cardinality(rows_of_index(ev.response, 1)) = 1

\* C18: the response of a query does not depend on the order in which the
\* field maps of the matching records are iterated: every outcome the query
\* arm can have on the store and the session of a dispatched query writes
\* the bytes that were written.
C18_QueryDeterministic ==
    (ev.outcome = "dispatched" /\ ev.kind = "Query") =>
        \A out \in dispatch_query(cmd_of(ev), context[ev.session],
                                   challenge_hex[ev.session], storage) :
            out.response = ev.response

\* A query without a return clause matched a record of three fields, whose
\* keys can be iterated in six orders
C18_Witness ==
    /\ ev.outcome = "dispatched" /\ ev.kind = "Query"
    /\ cmd_of(ev).returns = <<>>
    /\ \E k \in hit_positions(storage.records, cmd_of(ev).selections,
                                default_type_of(context[ev.session])) :
          Cardinality(HashMap_keys(DOMAIN storage.records[k].fields)) = 6
    /\ starts_with(ev.response, r_102_prefix)

\* The record types a default type is drawn from
TypesTried ==
    {NoType, Person, Machine, Other(<<"P", "r", "i", "n", "t", "e", "r">>),
     Other(<<"p", "r", "i", "n", "t", "e", "r">>)}

\* The records of a list whose type is T, in the order of the list
records_of_type(records, T) ==
    LET P == {k \in 1..Len(records) : records[k].record_type = T}
    IN  [j \in 1..Cardinality(P) |-> records[nth_hit(P, j)]]

\* C19: with an empty selection list query returns all records, in store
\* order, when the default type is None, and exactly the records whose type
\* is T when the default type is T, so never a record without a type; a
\* dispatched query without selections announces that many matches.
C19_EmptySelection ==
    /\ \A T \in TypesTried :
          query(storage, <<>>, T)
             = IF T = NoType THEN storage.records
               ELSE records_of_type(storage.records, T)
    /\ (ev.outcome = "dispatched" /\ ev.kind = "Query"
        /\ cmd_of(ev).selections = <<>>)
       => LET T == default_type_of(context[ev.session])
              n == IF T = NoType THEN Len(storage.records)
                   ELSE Len(records_of_type(storage.records, T))
          IN  IF n = 0 THEN ev.response = r_501
              ELSE starts_with(ev.response, header_text(n))

\* A client whose default type is Person queried without selections a store
\* that holds a person and a record without a type
C19_Witness ==
    /\ ev.outcome = "dispatched" /\ ev.kind = "Query"
    /\ cmd_of(ev).selections = <<>>
    /\ default_type_of(context[ev.session]) = Person
    /\ Len(storage.records) = 2
    /\ \E k \in 1..2 : storage.records[k].record_type = NoType
    /\ \E k \in 1..2 : storage.records[k].record_type = Person
    /\ starts_with(ev.response, header_text(1))

\* The default type the claim derives from a client id
claimed_default_type(id) ==
    IF ~id.some THEN NoType
    ELSE IF contains(id.val, <<"p", "h">>) THEN Person
    ELSE IF contains(id.val, <<"m", "d", "b">>) THEN Machine
    ELSE NoType

\* The store of the example: one record of type machine named Server Machine
holds_server_machine ==
    /\ Len(storage.records) = 1
    /\ storage.records[1].record_type = Machine
    /\ storage.records[1].fields
          = field_map_of(<<<<<<"n", "a", "m", "e">>, <<"S", "e", "r", "v", "e", "r", " ", "M", "a", "c", "h", "i", "n", "e">>>>,
                           <<<<"t", "y", "p", "e">>, <<"m", "a", "c", "h", "i", "n", "e">>>>>>)

\* C20: the id of a session changes only by its own id command, to the
\* case-folded value of the command; a query is answered with the default
\* type Person if that id contains ph, otherwise Machine if it contains
\* mdb, otherwise none, and none before any id.  Against the store of the
\* example query name=server is answered 501 for an id that contains ph and
\* with the record for an id that contains mdb and not ph.
C20_DefaultTypeFromId ==
    [][LET e == ev'
           s == e.session
           cmd == cmd_of(e)
           T == claimed_default_type(context[s].id)
           P == hit_positions(storage.records, cmd.selections, T)
       IN  /\ (e.outcome = "dispatched" /\ e.kind = "Id")
              => context'[s].id = Some(to_lowercase(cmd.str))
           /\ \A t \in Sessions :
                 (pc[t] = "open" /\ pc'[t] = "open"
                  /\ context'[t].id # context[t].id)
                 => (e.session = t /\ e.outcome = "dispatched" /\ e.kind = "Id")
           /\ e.outcome = "accept" => context'[s].id = None
           /\ (e.outcome = "dispatched" /\ e.kind = "Query")
              => /\ context'[s].id = context[s].id
                 /\ IF P = {} THEN e.response = r_501
                    ELSE starts_with(e.response, header_text(Cardinality(P)))
                 /\ (holds_server_machine
                     /\ cmd.selections = <<<<Some(<<"n", "a", "m", "e">>), <<"s", "e", "r", "v", "e", "r">>>>>>
                     /\ cmd.returns = <<>>)
                    => IF T = Person THEN e.response = r_501
                       ELSE e.response
                              = header_text(1)
                                \o <<"-", "2", "0", "0", ":", "1", ":", "n", "a", "m", "e", ":", " ", "S", "e", "r", "v", "e", "r", " ", "M", "a", "c", "h", "i", "n", "e", "\n">>
                                \o <<"-", "2", "0", "0", ":", "1", ":", "t", "y", "p", "e", ":", " ", "m", "a", "c", "h", "i", "n", "e", "\n">>
                                \o r_ok]_vars

\* A client whose id contains both mdb and ph asked for the server of the
\* example and was answered 501
C20_Witness ==
    /\ ev.outcome = "dispatched" /\ ev.kind = "Query"
    /\ holds_server_machine
    /\ context[ev.session].id = Some(<<"m", "d", "b", "-", "p", "h", "i", "l">>)
    /\ cmd_of(ev).selections = <<<<Some(<<"n", "a", "m", "e">>), <<"s", "e", "r", "v", "e", "r">>>>>>
    /\ ev.response = r_501

(***************************************************************************)
(* Properties of the sessions between their suspension points.             *)
(***************************************************************************)
\* C11: within one session the commands are processed one after another.  A
\* session reads a request line only when no command of it is in process,
\* every buffer of the response to its previous line written; a write_all
\* step of a session writes the next unwritten buffer of the response to
\* the last line that session read, and touches the task of no other
\* session; and the line in process changes only by a read of that session.
C11_Sequential ==
    [][\A s \in Sessions :
          /\ (ev'.session = s /\ ev'.outcome = "read_line")
             => task[s] = Task_idle
          /\ (ev'.session = s /\ ev'.outcome = "write_all")
             => /\ ev'.index = task[s].line
                /\ task[s].sent < Len(task[s].writes)
                /\ ev'.response = task[s].writes[task[s].sent + 1]
                /\ task'[s] \in {[task[s] EXCEPT !.sent = @ + 1], Task_idle}
                /\ task'[s] = Task_idle => task[s].sent + 1 = Len(task[s].writes)
                /\ \A t \in Sessions \ {s} : task'[t] = task[t]
          /\ (task'[s].line # task[s].line /\ task'[s].line # 0)
             => ev'.session = s /\ ev'.outcome = "read_line"
      ]_vars

\* C11 witness: a session has written the last buffer of a response of
\* several buffers, the 200:Ok after the rows of a query, and is back at
\* read_line, while the other session is in the middle of its own response
C11_Witness ==
    \E s \in Sessions :
        /\ ev.session = s
        /\ ev.outcome = "write_all"
        /\ ev.response = r_ok
        /\ Parsed[ev.index].cmd.kind = "Query"
        /\ task[s] = Task_idle
        /\ \E t \in Sessions \ {s} :
              /\ task[t].at = "write_all"
              /\ task[t].sent >= 1

\* The adds that have run add_record to its end
adds_completed ==
    acked + Cardinality({s \in Sessions :
                            in_add(task[s]) /\ task[s].at = "write_all"})

\* The record list and next_id agree: next_id is one more than every id
\* handed out, and the ids count the records from 1
store_whole(st) ==
    /\ st.next_id = max_id({st.records[k].id : k \in 1..Len(st.records)}) + 1
    /\ \A k \in 1..Len(st.records) : st.records[k].id = k

\* C12: a query sees all or none of the effects of a concurrent add.  When
\* a session evaluates lock.query on the in-memory or the file-backed
\* store, no write guard is out and no add stands between its push and its
\* next_id; the record list is the one left by the adds that have
\* completed, next_id agreeing with it; and the buffers the session goes on
\* to write are those of the query evaluated on that record list.
C12_QueryAtomic ==
    [][\A s \in Sessions :
          (ev'.session = s /\ ev'.outcome = "query")
          => /\ lock.writer = 0
             /\ \A t \in Sessions : task[t].at # "add_next_id"
             /\ store_whole(storage)
             /\ Len(storage.records) = loaded + adds_completed
             /\ storage' = storage
             /\ task'[s].writes \in
                   query_writes(query(storage, Parsed[ev'.index].cmd.selections,
                                      default_type_of(context[s])),
                                Parsed[ev'.index].cmd.returns)
      ]_vars

\* C12 witness: a session has evaluated its query right after the add of
\* the other session completed, that add not yet answered, and its result
\* holds the record added
C12_Witness ==
    \E s \in Sessions :
        /\ ev.session = s
        /\ ev.outcome = "query"
        /\ backend = "Memory"
        /\ \E t \in Sessions \ {s} :
              /\ in_add(task[t])
              /\ task[t].at = "write_all"
        /\ Len(storage.records) = 1
        /\ Len(task[s].writes) = 3

\* C13: a session blocked inside the query of the directory adapter keeps
\* no other session from going on: a session that waits in storage.write()
\* for its add is handed the write guard
C13_BlockedQueryIsolated ==
    \A s \in Sessions : \A t \in Sessions \ {s} :
        (task[s].at = "ldap_search" /\ task[t].at = "lock_write")
        => ENABLED TaskLockWrite(t)

\* The adds that have pushed their record
adds_pushed ==
    acked + Cardinality({s \in Sessions :
                            /\ in_add(task[s])
                            /\ task[s].at \in {"add_next_id", "write_all"}})

\* C14: on the in-memory and the file-backed store, under every
\* interleaving of the adds of the sessions, every add has raised the count
\* by exactly one: the count is the number of records loaded at start plus
\* the adds that pushed their record, which once no add is in process is
\* the number of adds answered 200:Ok.  The ids ascend strictly along the
\* record list, from 1 on a store that started empty, no two records share
\* an id, and outside add_record next_id is above every id handed out.
C14_CountAndIds ==
    backend \in {"Memory", "File"}
    => /\ record_count(storage) = loaded + adds_pushed
       /\ (\A s \in Sessions : ~in_add(task[s]))
          => record_count(storage) = loaded + acked
       /\ \A a \in 1..Len(storage.records) : \A b \in 1..Len(storage.records) :
             /\ a < b => storage.records[a].id < storage.records[b].id
             /\ a # b => storage.records[a].id # storage.records[b].id
       /\ (loaded = 0 /\ storage.records # <<>>) => storage.records[1].id = 1
       /\ (\A s \in Sessions : task[s].at # "add_next_id")
          => \A a \in 1..Len(storage.records) :
                storage.records[a].id < storage.next_id

\* C14 witness: a file-backed store that loaded a record has taken two adds,
\* both answered, and holds three records
C14_Witness ==
    /\ backend = "File"
    /\ loaded = 1
    /\ acked = 2
    /\ record_count(storage) = 3
    /\ storage.records[3].id = 3
    /\ \A s \in Sessions : ~in_add(task[s])

(***************************************************************************)
(* Properties of the functions called on their own.                        *)
(***************************************************************************)
\* The type gate of query: with a default type a record passes if it has a
\* type, and that type is the default type or a selection names type
passes_type_gate(record, selections, default_type) ==
    \/ default_type = NoType
    \/ /\ record.record_type # NoType
       /\ \/ record.record_type = default_type
          \/ \E i \in 1..Len(selections) : selections[i][1] = Some(kw_type)

\* One selection entry matches a record: a field-qualified entry when the
\* record has a field of exactly that name whose value matches, a bare
\* entry when some field value of the record matches
entry_matches(record, entry) ==
    IF entry[1].some
    THEN \E f \in DOMAIN record.fields :
            f = entry[1].val /\ matches(record.fields[f], entry[2])
    ELSE \E f \in DOMAIN record.fields : matches(record.fields[f], entry[2])

\* C21: a record that passes the type gate is returned by query if and
\* only if every selection entry matches it, a field-qualified entry by the
\* field of exactly that name and a bare entry by at least one field value
C21_AllEntriesMatch ==
    call.fn = "query"
    => LET st == call.args[1]
           selections == call.args[2]
           default_type == call.args[3]
       IN  \A k \in 1..Len(st.records) :
              passes_type_gate(st.records[k], selections, default_type)
              => ((\E j \in 1..Len(call.result) : call.result[j] = st.records[k])
                  <=> \A i \in 1..Len(selections) :
                         entry_matches(st.records[k], selections[i]))

\* C21 witness: of two records that pass the gate, query with two entries
\* returned the one both entries match and left out the one only the
\* first matches
C21_Witness ==
    /\ call.fn = "query"
    /\ Len(call.args[2]) = 2
    /\ Len(call.args[1].records) = 2
    /\ Len(call.result) = 1
    /\ \E k \in 1..2 :
          /\ passes_type_gate(call.args[1].records[k], call.args[2], call.args[3])
          /\ entry_matches(call.args[1].records[k], call.args[2][1])
          /\ ~entry_matches(call.args[1].records[k], call.args[2][2])
          /\ call.result[1] # call.args[1].records[k]

\* Letters put in upper case, over the ASCII range
to_uppercase(s) ==
    [i \in 1..Len(s) |->
        IF Code(s[i]) >= 97 /\ Code(s[i]) <= 122
        THEN Chars[CharIndex[s[i]] - 32] ELSE s[i]]

\* The pieces of s between the characters of seps, empty pieces included
pieces_between(s, seps) ==
    {SubSeq(s, a, b - 1) :
        <<a, b>> \in {ab \in (1..Len(s) + 1) \X (1..Len(s) + 1) :
                        /\ ab[1] <= ab[2]
                        /\ ab[1] = 1 \/ s[ab[1] - 1] \in seps
                        /\ ab[2] = Len(s) + 1 \/ s[ab[2]] \in seps
                        /\ \A k \in ab[1]..(ab[2] - 1) : s[k] \notin seps}}

WhiteSpace == {" ", "\t", "\n", "\r"}

\* One query word matches one field word
word_matches(fw, qw) ==
    IF \E i \in 1..Len(qw) : qw[i] \in {"*", "?", "+"}
    THEN IF qw[Len(qw)] = "*"
         THEN Len(fw) >= Len(qw) - 1 /\ SubSeq(fw, 1, Len(qw) - 1) = SubSeq(qw, 1, Len(qw) - 1)
         ELSE fw = qw
    ELSE fw = qw

\* C22: word-rule matching is case-insensitive and independent of the
\* order of the query words.  The result of matches is the same with the
\* field value or the query value put in upper or in lower case and with
\* the query words in any other order, and it is true exactly when every
\* query word matches some field word, the field words being the pieces of
\* the field value between white space, comma, semicolon and colon.
C22_WordRule ==
    call.fn = "matches"
    => LET field_val == call.args[1]
           query_val == call.args[2]
           query_words == split_whitespace(query_val)
       IN  /\ call.result = matches(to_uppercase(field_val), query_val)
           /\ call.result = matches(to_lowercase(field_val), query_val)
           /\ call.result = matches(field_val, to_uppercase(query_val))
           /\ call.result = matches(field_val, to_lowercase(query_val))
           /\ \A order \in HashMap_keys(1..Len(query_words)) :
                 call.result =
                    matches(field_val,
                            join([k \in 1..Len(query_words) |->
                                     query_words[order[k]]]))
           /\ call.result
              <=> \A qw \in pieces_between(to_lowercase(query_val), WhiteSpace)
                             \ {<<>>} :
                     \E fw \in pieces_between(to_lowercase(field_val),
                                              WhiteSpace \cup {",", ";", ":"}) :
                        word_matches(fw, qw)

\* C22 witness: a query of two words in capitals, in the order opposite to
\* that of the field value, matched a field value whose words a comma and
\* a space part
C22_Witness ==
    /\ call.fn = "matches"
    /\ call.args[1] = <<"D", "o", "e", ",", " ", "J", "o", "h", "n">>
    /\ call.args[2] = <<"J", "o", "h", "n", " ", "D", "O", "E">>
    /\ call.result = TRUE

\* C23: a query word that holds a star, a question mark or a plus matches
\* a field word, both case-folded, as follows.  If the query word ends
\* with a star it matches exactly the field words that begin with the part
\* before that final star; in every other form it matches only the field
\* word equal to the whole query word.  matches decides the same for a
\* field value and a query value of one word each.
C23_TrailingStarOnly ==
    call.fn = "wildcard_match"
    => LET word == to_lowercase(call.args[1])
           pattern == to_lowercase(call.args[2])
           n == Len(pattern) - 1
           expected ==
               IF pattern[Len(pattern)] = "*"
               THEN Len(word) >= n /\ \A i \in 1..n : word[i] = pattern[i]
               ELSE word = pattern
       IN  /\ \E i \in 1..Len(pattern) : pattern[i] \in {"*", "?", "+"}
           /\ call.result <=> expected
           /\ matches(call.args[1], call.args[2]) <=> expected

\* C23 witness: a pattern with a star inside and none at its end was
\* tried on a field word that begins with the part before the star, and
\* did not match
C23_Witness ==
    /\ call.fn = "wildcard_match"
    /\ call.args[1] = <<"J", "o", "h", "n">>
    /\ call.args[2] = <<"j", "o", "*", "n">>
    /\ call.result = FALSE

(***************************************************************************)
(* Further properties of the session loop.                                 *)
(***************************************************************************)
\* The lines of a response, as a set
lines_of_response(resp) ==
    {response_lines(resp)[j] : j \in DOMAIN response_lines(resp)}

\* The steps of accept and of the banner: the banner is what the accept
\* step writes, a line is read only on a connection that was accepted, and
\* no later step of the session writes the banner again
banner_once ==
    /\ ev'.outcome = "accept"
       => /\ ev'.response = r_ready
          /\ pc[ev'.session] = "idle"
          /\ pc'[ev'.session] = "open"
    /\ ev'.outcome # "accept"
       => /\ pc[ev'.session] = "open"
          /\ SubSeq(r_ready, 1, Len(r_ready) - 1)
                \notin lines_of_response(ev'.response)

\* The step is the answer to a status command
status_step ==
    /\ ev'.index # 0
    /\ Parsed[ev'.index].ok
    /\ cmd_of(ev').kind = "Status"

r_status_lines ==
    <<"1", "0", "0", ":", "P", "h", "a", "r", "o", "s", " ", "s", "e", "r",
      "v", "e", "r", " ", "a", "c", "t", "i", "v", "e", "\n",
      "2", "0", "0", ":", "O", "k", "\n">>

\* C24 as stated: on accept the server writes 200:Database ready, once and
\* before it reads a request line, and a status command is answered with
\* 100:Pharos server active and 200:Ok in every session state and leaves
\* the context of the session and the store as they were.
C24_BannerAndStatus ==
    [][/\ banner_once
       /\ status_step
          => /\ ev'.outcome = "dispatched"
             /\ ev'.response = r_status_lines
             /\ context' = context
             /\ storage' = storage
             /\ pc' = pc
      ]_vars

\* C24 amended: as above, but of the context a status command leaves the
\* id, the authenticated flag and the roles as they were; the tier of the
\* context is the one the security-tier middleware of the chain stamps on
\* it, and is left alone under a chain without that middleware.
C24_BannerAndStatusStamped ==
    [][/\ banner_once
       /\ status_step
          => /\ ev'.outcome = "dispatched"
             /\ ev'.response = r_status_lines
             /\ \A s \in Sessions \ {ev'.session} : context'[s] = context[s]
             /\ context'[ev'.session].id = context[ev'.session].id
             /\ context'[ev'.session].authenticated
                   = context[ev'.session].authenticated
             /\ context'[ev'.session].roles = context[ev'.session].roles
             /\ context'[ev'.session].tier
                   \in IF tier_of_chain = {} THEN {context[ev'.session].tier}
                       ELSE tier_of_chain
             /\ storage' = storage
             /\ pc' = pc
      ]_vars

\* C24 witness: an authenticated session that gave its id has been
\* answered a status command, under a chain whose tier is Scoped
C24_Witness ==
    /\ ev.outcome = "dispatched"
    /\ cmd_of(ev).kind = "Status"
    /\ context[ev.session].authenticated
    /\ context[ev.session].id.some
    /\ tier_of_chain = {Scoped}

\* The state of the server but for the record of the last step
state_vars ==
    <<middleware_chain, storage, pc, context, challenge_hex, backend, lock,
      task, loaded, acked, disk>>

UnimplementedKinds ==
    {"Set", "Login", "Logout", "Answer", "Clear", "Email", "XLogin",
     "Fields", "SiteInfo", "Help"}

\* C26: where no pre handler short-circuits, delete and change are
\* answered 401:Authentication required. Challenge: and the challenge of
\* the session when the session is not authenticated and 598:Command not
\* yet implemented when it is; set, login, logout, answer, clear, email,
\* xlogin, fields, siteinfo and help are answered 598:Command not yet
\* implemented whether it is or not.  None of them changes the store.
C26_Unimplemented ==
    [][(ev'.outcome = "dispatched"
        /\ cmd_of(ev').kind \in {"Delete", "Change"} \cup UnimplementedKinds)
       => /\ ev'.response =
                IF cmd_of(ev').kind \in {"Delete", "Change"}
                   /\ ~context[ev'.session].authenticated
                THEN <<"4", "0", "1", ":", "A", "u", "t", "h", "e", "n", "t", "i", "c", "a", "t", "i", "o", "n", " ", "r", "e", "q", "u", "i", "r", "e", "d", ".", " ", "C", "h", "a", "l", "l", "e", "n", "g", "e", ":", " ">>
                     \o challenge_hex[ev'.session] \o <<"\n">>
                ELSE <<"5", "9", "8", ":", "C", "o", "m", "m", "a", "n", "d", " ", "n", "o", "t", " ", "y", "e", "t", " ", "i", "m", "p", "l", "e", "m", "e", "n", "t", "e", "d", "\n">>
          /\ storage' = storage
          /\ pc' = pc
      ]_vars

\* C26 witness: an authenticated session was answered 598 to a change,
\* under a chain of three middlewares that let it through
C26_Witness ==
    /\ ev.outcome = "dispatched"
    /\ cmd_of(ev).kind = "Change"
    /\ context[ev.session].authenticated
    /\ ev.response = r_598_nyi
    /\ Len(middleware_chain) = 3

\* C27: a new file-backed store constructed from the path of a store whose
\* last write of the data file succeeded has the same count and the same
\* records (ids, record types and field maps, in the same order) as that
\* store, and its next add receives an id greater than every loaded id.
C27_FileRoundTrip ==
    [][(ev.kind = "written" /\ ev'.outcome = "new") =>
          /\ record_count(storage') = record_count(storage)
          /\ storage'.records = storage.records
          /\ \A fields \in FileFields :
                \A k \in 1..Len(storage'.records) :
                    add_record(storage', fields)
                        .records[Len(storage'.records) + 1].id
                    > storage'.records[k].id]_vars

\* C27 witness: a store constructed from a data file that was written in
\* full holds two records, one with a value that needs escaping and one of
\* a record type of its own
C27_Witness ==
    /\ ev.outcome = "new"
    /\ ev.kind = "written"
    /\ storage = FileStorage_new(disk)
    /\ Len(storage.records) = 2
    /\ \E k \in 1..2 : storage.records[k].record_type.tag = "Other"
    /\ \E k \in 1..2 : \E f \in DOMAIN storage.records[k].fields :
          \E i \in 1..Len(storage.records[k].fields[f]) :
              storage.records[k].fields[f][i] = "\""

\* A data file whose text is not a JSON array of records
is_corrupt(file) ==
    file.exists /\ file.data # <<>> /\ ~from_str(file.data).ok

ordered_lines(resp) ==
    LET ends == {j \in 1..Len(resp) : resp[j] = "\n"}
        nth(k) == CHOOSE j \in ends : Cardinality({m \in ends : m <= j}) = k
    IN  [k \in 1..Cardinality(ends) |-> response_lines(resp)[nth(k)]]

\* A response of the form the claim speaks of: the 102 line, data rows
\* only, and the terminal 200:Ok
is_match_response(resp) ==
    LET ls == ordered_lines(resp)
    IN  /\ Len(ls) >= 3
        /\ starts_with(ls[1] \o <<"\n">>, r_102_prefix)
        /\ ls[Len(ls)] \o <<"\n">> = r_ok
        /\ \A k \in 2..(Len(ls) - 1) : starts_with(ls[k], r_row_prefix)

\* The rows of a response as index, field and value
rows_of_response(resp) ==
    LET ls == ordered_lines(resp)
    IN  [k \in 1..(Len(ls) - 2) |->
            LET parts == splitn(4, ls[k + 1])
            IN  [index |-> parts[2], field |-> parts[3],
                 value |-> trim(parts[4])]]

\* The records of the rows: one for each distinct index in the order the
\* indexes first come, holding the rows of the index in the order received
records_of_rows(rows) ==
    LET firsts == {k \in 1..Len(rows) :
                      \A m \in 1..(k - 1) : rows[m].index # rows[k].index}
        nth(n) == CHOOSE k \in firsts : Cardinality({m \in firsts : m <= k}) = n
        of(index) == {k \in 1..Len(rows) : rows[k].index = index}
        kth(index, n) ==
            CHOOSE k \in of(index) :
                Cardinality({m \in of(index) : m <= k}) = n
    IN  [n \in 1..Cardinality(firsts) |->
            [index |-> rows[nth(n)].index,
             fields |-> [f \in 1..Cardinality(of(rows[nth(n)].index)) |->
                            <<rows[kth(rows[nth(n)].index, f)].field,
                              rows[kth(rows[nth(n)].index, f)].value>>]]]

\* C29: when the response to the command of the client is the 102 line,
\* data rows and the terminal 200:Ok, parse_response reads up to the
\* terminal line and returns the matched records: one record for each
\* distinct index, holding the field and value rows of the index in the
\* order received.
C29_ParsedMatches ==
    (/\ client.at = "done"
     /\ ev.outcome = "dispatched"
     /\ ev.index = client.command
     /\ is_match_response(ev.response)) =>
        /\ client.stream = <<>>
        /\ client.result.kind = "Matches"
        /\ \E want \in {records_of_rows(rows_of_response(ev.response))} :
              /\ Len(client.result.records) = Len(want)
              /\ \A n \in 1..Len(want) :
                    /\ to_decimal(client.result.records[n].id) = want[n].index
                    /\ [f \in 1..Len(client.result.records[n].fields) |->
                           <<client.result.records[n].fields[f].key,
                             client.result.records[n].fields[f].value>>]
                       = want[n].fields

\* C30: in tier Open a client that holds an authorized key and runs an add
\* through execute_authenticated on a fresh session ends with 200:Ok and
\* the record in the store; the command is sent a second time only after
\* the server has accepted the auth.
C30_AuthenticatedAdd ==
    (/\ tier_of_chain = {Open}
     /\ ClientKey \in auth_manager.authorized_keys
     /\ client.id = 28
     /\ Parsed[client.command].ok
     /\ Parsed[client.command].cmd.kind = "Add") =>
        /\ client.at = "retry_sent" => context[1].authenticated
        /\ client.at = "done" =>
              /\ client.result = PharosResponse_Ok(<<"O", "k">>)
              /\ \E k \in 1..Len(storage.records) :
                    storage.records[k].fields
                    = field_map_of(Parsed[client.command].cmd.pairs)

(***************************************************************************)
(* Properties of the parser.                                               *)
(***************************************************************************)
\* The keywords the grammar knows
Keywords ==
    {kw_status, kw_siteinfo, kw_fields, kw_id, kw_auth, kw_set, kw_login,
     kw_logout, kw_answer, kw_clear, kw_email, kw_xlogin, kw_add, kw_query,
     kw_ph, kw_delete, kw_change, kw_help, kw_quit, kw_exit, kw_stop}

\* The arguments a keyword cannot do without
required_args(keyword) ==
    IF keyword \in {kw_auth, kw_xlogin} THEN 2
    ELSE IF keyword \in {kw_id, kw_login, kw_answer, kw_clear, kw_email} THEN 1
    ELSE 0

\* The backslashes that stand right before position i
RECURSIVE backslash_run(_, _)
backslash_run(line, i) ==
    IF i > 1 /\ line[i - 1] = "\\" THEN 1 + backslash_run(line, i - 1) ELSE 0

\* The quotes of a line that no backslash escapes
bare_quotes(line) ==
    {i \in 1..Len(line) : line[i] = "\"" /\ backslash_run(line, i) % 2 = 0}

quotes_unclosed(line) == Cardinality(bare_quotes(line)) % 2 = 1

has_eq(token) == \E p \in 1..Len(token) : token[p] = "="

\* The two sides of the first equals sign of a token that has one
split_at_first_eq(token) ==
    LET p == CHOOSE p \in 1..Len(token) :
                 token[p] = "=" /\ \A q \in 1..(p - 1) : token[q] # "="
    IN  <<SubSeq(token, 1, p - 1), SubSeq(token, p + 1, Len(token))>>

\* A selection entry as the token gives it
entry_of(token) ==
    IF has_eq(token)
    THEN <<Some(split_at_first_eq(token)[1]), split_at_first_eq(token)[2]>>
    ELSE <<None, token>>

\* Decimal digits after an optional plus sign
is_unsigned_integer(s) ==
    LET d == IF s # <<>> /\ s[1] = "+" THEN Tail(s) ELSE s
    IN  d # <<>> /\ \A i \in 1..Len(d) : d[i] \in {"0", "1", "2", "3", "4", "5", "6", "7", "8", "9"}

\* The value of a digit string, while it stays under ten digits
RECURSIVE digits_value(_)
digits_value(d) ==
    IF d = <<>> THEN 0
    ELSE 10 * digits_value(SubSeq(d, 1, Len(d) - 1))
         + (CHOOSE n \in 0..9 : to_decimal(n) = <<d[Len(d)]>>)

\* An unsigned integer of at most 32 bits: 4294967295 = 429496729 * 10 + 5
fits_u32(s) ==
    /\ is_unsigned_integer(s)
    /\ LET d == IF s[1] = "+" THEN Tail(s) ELSE s
           z == strip_zeros(d)
       IN  \/ Len(z) < 10
           \/ /\ Len(z) = 10
              /\ \/ digits_value(SubSeq(z, 1, 9)) < 429496729
                 \/ /\ digits_value(SubSeq(z, 1, 9)) = 429496729
                    /\ digits_value(<<z[10]>>) <= 5

\* The tokens of a change after the first make or force: its modifications
modification_tokens(args) ==
    LET marks == {i \in 1..Len(args) : to_lowercase(args[i]) \in {kw_make, kw_force}}
    IN  IF marks = {} THEN <<>>
        ELSE LET first == CHOOSE i \in marks : \A j \in marks : i <= j
             IN  SelectSeq(SubSeq(args, first + 1, Len(args)),
                           LAMBDA t : to_lowercase(t) \notin {kw_make, kw_force})

\* The outcome the rules give a line whose tokens are toks; change_rule
\* says whether a modification without an equals sign is a syntax error and
\* width whether the xlogin option has to fit 32 bits
outcome_by_rules(line, toks, change_rule, width) ==
    LET keyword == to_lowercase(toks[1])
        args == Tail(toks)
    IN  IF quotes_unclosed(line) \/ toks = <<>> THEN SyntaxError
        ELSE IF keyword \notin Keywords THEN UnknownCommand
        ELSE IF Len(args) < required_args(keyword) THEN SyntaxError
        ELSE IF keyword = kw_add /\ \E i \in 1..Len(args) : ~has_eq(args[i])
        THEN SyntaxError
        ELSE IF /\ change_rule
                /\ keyword = kw_change
                /\ \E i \in 1..Len(modification_tokens(args)) :
                      ~has_eq(modification_tokens(args)[i])
        THEN SyntaxError
        ELSE IF /\ keyword = kw_xlogin
                /\ ~(IF width THEN fits_u32(args[1]) ELSE is_unsigned_integer(args[1]))
        THEN InvalidArgument
        ELSE "Command"

\* The pairs and entries of a command are its tokens split at the first
\* equals sign
splits_at_first_eq(cmd, args) ==
    /\ cmd.kind = "Add" =>
          /\ Len(cmd.pairs) = Len(args)
          /\ \A i \in 1..Len(args) : cmd.pairs[i] = split_at_first_eq(args[i])
    /\ cmd.kind = "Delete" =>
          /\ Len(cmd.selections) = Len(args)
          /\ \A i \in 1..Len(args) : cmd.selections[i] = entry_of(args[i])
    /\ cmd.kind \in {"Query", "Change"} =>
          /\ \A i \in 1..Len(cmd.selections) :
                \E j \in 1..Len(args) : cmd.selections[i] = entry_of(args[j])
          /\ \A i \in 1..Len(cmd.pairs) :
                \E j \in 1..Len(args) :
                   has_eq(args[j]) /\ cmd.pairs[i] = split_at_first_eq(args[j])

classified(change_rule, width) ==
    call.fn = "parse_command"
    => LET line == call.args[1]
           toks == tokenize(line).tokens
           by_rules == outcome_by_rules(line, toks, change_rule, width)
       IN  IF by_rules = "Command"
           THEN call.result.ok /\ splits_at_first_eq(call.result.cmd, Tail(toks))
           ELSE ~call.result.ok /\ call.result.err = by_rules

\* C31 as stated: parse_command gives every line exactly one outcome: a
\* syntax error for unclosed quotes, no token, an add token without an
\* equals sign or a missing required argument; unknown command for a first
\* token that is no keyword; invalid argument for an xlogin option that is
\* not an unsigned integer; otherwise a command whose k=v tokens are split
\* at their first equals sign
C31_Classified == classified(FALSE, FALSE)

\* C31 amended: as stated, and also a syntax error when a token after make
\* or force in a change has no equals sign, and invalid argument when the
\* xlogin option does not fit 32 bits
C31_ClassifiedChange == classified(TRUE, TRUE)

\* C31 witness: a change whose modification has no equals sign was refused
\* as a syntax error
C31_Witness ==
    /\ call.fn = "parse_command"
    /\ ~quotes_unclosed(call.args[1])
    /\ \E toks \in {tokenize(call.args[1]).tokens} :
          /\ toks # <<>>
          /\ to_lowercase(toks[1]) = kw_change
          /\ \E i \in 1..Len(modification_tokens(Tail(toks))) :
                ~has_eq(modification_tokens(Tail(toks))[i])
    /\ call.result = Err(SyntaxError)

\* The join of the round trip: the tokens with single spaces between them,
\* a token that holds whitespace or a double quote wrapped in double quotes
needs_quotes(token) ==
    \E i \in 1..Len(token) : is_whitespace(token[i]) \/ token[i] = "\""

quote_join(toks) ==
    join([i \in 1..Len(toks) |->
             IF needs_quotes(toks[i]) THEN <<"\"">> \o toks[i] \o <<"\"">>
             ELSE toks[i]])

\* A token that holds no double quote and no backslash
plain(token) == \A i \in 1..Len(token) : token[i] \notin {"\"", "\\"}

\* C32 as stated: for a text with balanced quotes, tokenizing the quoted
\* join of its tokens gives the same token list again
C32_RoundTrip ==
    (call.fn = "tokenize" /\ call.result.ok)
    => tokenize(quote_join(call.result.tokens)) = call.result

\* C32 amended: the round trip holds for a text with balanced quotes whose
\* tokens hold neither a double quote nor a backslash
C32_RoundTripPlain ==
    (/\ call.fn = "tokenize"
     /\ call.result.ok
     /\ \A i \in 1..Len(call.result.tokens) : plain(call.result.tokens[i]))
    => tokenize(quote_join(call.result.tokens)) = call.result

\* C32 witness: a text gave two tokens, one of them with whitespace in it
\* and so wrapped in quotes by the join, and the round trip gave them back
C32_Witness ==
    /\ call.fn = "tokenize"
    /\ call.result.ok
    /\ Len(call.result.tokens) = 2
    /\ \A i \in 1..2 : plain(call.result.tokens[i])
    /\ \E i \in 1..2 : needs_quotes(call.result.tokens[i])
    /\ quote_join(call.result.tokens) # call.args[1]
    /\ tokenize(quote_join(call.result.tokens)) = call.result

\* A selection entry names the field type
names_type(selections) ==
    \E i \in 1..Len(selections) : selections[i][1] = Some(kw_type)

\* C33: with a default type and a selection entry that names the field
\* type, a record that has a type is returned exactly when every selection
\* entry matches it, whatever its type, and a record that has no type is
\* not returned
C33_TypeSelectionLiftsGate ==
    (/\ call.fn = "query"
     /\ call.args[3] # NoType
     /\ names_type(call.args[2]))
    => \A k \in 1..Len(call.args[1].records) :
          LET record == call.args[1].records[k]
              returned == \E j \in 1..Len(call.result) : call.result[j] = record
          IN  IF record.record_type # NoType
              THEN returned <=> \A i \in 1..Len(call.args[2]) :
                                   entry_matches(record, call.args[2][i])
              ELSE ~returned

\* C33 witness: query with a default type returned a record of another
\* type that the selection on type names, next to a record without a type
\* that it left out
C33_Witness ==
    /\ call.fn = "query"
    /\ call.args[3] # NoType
    /\ names_type(call.args[2])
    /\ \E j \in 1..Len(call.result) :
          call.result[j].record_type \notin {NoType, call.args[3]}
    /\ \E k \in 1..Len(call.args[1].records) :
          call.args[1].records[k].record_type = NoType

(***************************************************************************)
(* Properties of the server on the file-backed store.                      *)
(***************************************************************************)
\* The step is an add that an authenticated session had dispatched
add_stored ==
    /\ ev'.outcome = "dispatched"
    /\ ev'.kind = "Add"
    /\ context[ev'.session].authenticated

\* The write of the data file did not succeed
write_failed(c) ==
    c.fn = "persist_to_disk" /\ c.args[1] \in {"create_failed", "write_failed"}

\* C34: an add on the file-backed store is answered 200:Ok and leaves its
\* record at the end of the records in memory whatever becomes of the
\* write; an add whose write succeeds leaves the whole record list in the
\* file, the records of earlier failed writes included; and a query is
\* answered with the count of the records in memory, not of the file
C34_WriteFailureSilent ==
    [][/\ add_stored =>
            /\ ev'.response = r_ok
            /\ Len(storage'.records) = Len(storage.records) + 1
            /\ SubSeq(storage'.records, 1, Len(storage.records)) = storage.records
            /\ storage'.records[Len(storage'.records)].fields
               = field_map_of(Parsed[ev'.index].cmd.pairs)
            /\ call'.args[1] = "written" =>
                  \E held \in {from_str(disk'.data)} :
                     held.ok /\ held.val = storage'.records
       /\ (ev'.outcome = "dispatched" /\ ev'.index = 31 /\ storage.records # <<>>) =>
            starts_with(ev'.response,
                        r_102_prefix \o to_decimal(Len(storage.records))
                        \o r_102_suffix)]_vars

\* C34 witness: after two adds of which the last write failed the file
\* holds no record list, and the query that followed was answered with
\* both records
C34_Witness ==
    /\ ev.outcome = "dispatched"
    /\ ev.index = 31
    /\ write_failed(call)
    /\ Len(storage.records) = 2
    /\ ~from_str(disk.data).ok
    /\ starts_with(ev.response, r_102_prefix \o <<"2">> \o r_102_suffix)

(***************************************************************************)
(* Properties of the sessions on a lock that can be poisoned.              *)
(***************************************************************************)
\* C35: a session whose add or query finds the store lock poisoned is
\* closed by that step: nothing is written for the command, no write is
\* left to do, and the store is as it was
C35_PoisonedLockClosesSession ==
    [][\A s \in Sessions :
          (/\ lock.poisoned
           /\ task[s].at \in {"lock_write", "lock_read"}
           /\ task'[s] # task[s])
          => /\ pc'[s] = "idle"
             /\ task'[s] = Task_idle
             /\ ev'.session = s
             /\ ev'.response = <<>>
             /\ storage' = storage]_vars

\* C35 witness: an add found the lock poisoned and its session is closed,
\* with no record in the store
C35_Witness ==
    /\ ev.outcome = "lock_poisoned"
    /\ Parsed[ev.index].cmd.kind = "Add"
    /\ lock.poisoned
    /\ pc[ev.session] = "idle"
    /\ storage.records = <<>>

(***************************************************************************)
(* Properties of the sessions over all their commands.                     *)
(***************************************************************************)
\* The chain holds a security-tier handler of tier Protected or Scoped
tier_enforced == tier_of_chain \cap {Protected, Scoped} # {}

\* C36: with a security-tier handler of tier Protected or Scoped in the
\* chain, nothing written to a session holds the challenge of that session
C36_ChallengeNotRevealed ==
    [][tier_enforced =>
          \A s \in Sessions :
             ev'.session = s =>
                \A c \in {challenge_hex[s], challenge_hex'[s]} \ {<<>>} :
                   ~contains(ev'.response, c)]_vars

\* C36 witness: in such a chain an add of a session that is not
\* authenticated was short-circuited with a 401 that holds no challenge
C36_Witness ==
    /\ tier_enforced
    /\ ev.kind = "Add"
    /\ ev.outcome = "short_circuit"
    /\ ~context[ev.session].authenticated
    /\ starts_with(ev.response, r_401_required)
    /\ ~contains(ev.response, challenge_hex[ev.session])

\* The session holds a guard of the store lock
holds_lock(s) == s \in lock.readers \/ lock.writer = s

\* The task is suspended on the socket: in read_line or in a write_all
on_socket(t) == t.at \in {"read_line", "write_all"}

\* C37: a session that is suspended in read_line or in a write_all holds
\* no guard of the store lock, so a session that waits for the lock while
\* every other session is suspended on its socket is handed the guard
C37_NoLockAcrossAwait ==
    /\ \A s \in Sessions : on_socket(task[s]) => ~holds_lock(s)
    /\ \A t \in Sessions :
          (\A s \in Sessions \ {t} : on_socket(task[s]))
          => /\ task[t].at = "lock_write" => ENABLED TaskLockWrite(t)
             /\ task[t].at = "lock_read" => ENABLED TaskLockRead(t)

\* C37 witness: a session stands in the middle of the writes of its query
\* response while another waits for the write guard, and the lock is free
C37_Witness ==
    \E s \in Sessions : \E t \in Sessions \ {s} :
        /\ task[s].at = "write_all"
        /\ task[s].sent >= 1
        /\ Len(task[s].writes) >= 3
        /\ task[t].at = "lock_write"
        /\ write_available(lock)

\* C38: the authenticated flag of a session is false when the session is
\* accepted and, once true, stays true while the session is open, whatever
\* the session sends next
C38_AuthenticatedMonotonic ==
    [][\A s \in Sessions :
          /\ (pc[s] = "idle" /\ pc'[s] = "open") => ~context'[s].authenticated
          /\ (pc[s] = "open" /\ pc'[s] = "open" /\ context[s].authenticated)
             => context'[s].authenticated]_vars

\* C38 witness: an authenticated session sent an auth that was refused and
\* is authenticated still
C38_Witness ==
    /\ ev.outcome = "dispatched"
    /\ ev.kind = "Auth"
    /\ ev.response = r_forbidden
    /\ pc[ev.session] = "open"
    /\ context[ev.session].authenticated

\* C39: a step of one session leaves every other session as it was: its
\* context, its challenge and whether it is open; so the authenticated flag
\* and the id of a session change only in steps of that session
C39_SessionsIsolated ==
    [][\A t \in Sessions :
          ev'.session # t =>
             /\ context'[t] = context[t]
             /\ challenge_hex'[t] = challenge_hex[t]
             /\ pc'[t] = pc[t]]_vars

\* C39 witness: one session became authenticated by its auth while another
\* open session with another id is not, and the store holds a record
C39_Witness ==
    /\ ev.outcome = "dispatched"
    /\ ev.kind = "Auth"
    /\ context[ev.session].authenticated
    /\ \E t \in Sessions \ {ev.session} :
          /\ pc[t] = "open"
          /\ ~context[t].authenticated
          /\ context[t].id # context[ev.session].id

\* The type the type field of a record stands for: person and machine in
\* any case, Other for any other text, no type without the field
type_fits_fields(record) ==
    IF kw_type \notin DOMAIN record.fields THEN record.record_type = NoType
    ELSE IF to_lowercase(record.fields[kw_type]) = kw_person
    THEN record.record_type = Person
    ELSE IF to_lowercase(record.fields[kw_type]) = kw_machine
    THEN record.record_type = Machine
    ELSE record.record_type.tag = "Other"

\* C40: the store only grows at its end: every record stays at its
\* position with its id, type and fields through every step of every
\* session, delete and change of an authenticated session included, and
\* the type of every record is the one its type field stands for
C40_AppendOnly ==
    [][/\ Len(storage'.records) >= Len(storage.records)
       /\ \A k \in 1..Len(storage.records) :
             storage'.records[k] = storage.records[k]
       /\ \A k \in 1..Len(storage'.records) :
             type_fits_fields(storage'.records[k])]_vars

\* C40 witness: an authenticated session had its delete or change
\* dispatched on a store of two records, one of them a person by a type
\* field in upper case, and both are there still
C40_Witness ==
    /\ ev.outcome = "dispatched"
    /\ ev.kind \in {"Delete", "Change"}
    /\ context[ev.session].authenticated
    /\ ev.response = r_598_nyi
    /\ Len(storage.records) = 2
    /\ \E k \in 1..2 :
          /\ storage.records[k].record_type = Person
          /\ storage.records[k].fields[kw_type] = to_uppercase(kw_person)

====
